---------------------------- MODULE Spec2Model ----------------------------
(***************************************************************************)
(* Model of the agent markdown loader                                      *)
(* (packages/core/src/agents/markdown-loader.ts, kept in the source tree   *)
(* after its test in markdown-loader.test.ts).                             *)
(*                                                                         *)
(* A markdown text is a sequence of lexemes: one-character strings for the *)
(* characters the loader's regular expressions look at (" ", "\n", "#",    *)
(* "-"), and indivisible strings for everything else (the code fence, the    *)
(* label "json", the literal "Agent:", words, and whole JSON texts).  No   *)
(* lexeme other than " " and "\n" holds white space, and no literal of a   *)
(* regular expression occurs inside a lexeme or across two of them, so a   *)
(* regular expression matches the lexeme sequence exactly as it matches    *)
(* the string the lexemes spell.                                           *)
(***************************************************************************)
EXTENDS Integers, Sequences, FiniteSets, TLC

VARIABLES
    doc,          \* the markdown text handed to parseAgentMarkdown
    written,      \* how many chunks the author has appended to doc
    phase,        \* "edit" while the text is composed, "parsed" after the call
    result,       \* what parseAgentMarkdown returned or threw
    dirState,     \* outcome of fs.readdir for the directory being loaded
    dirEntries,   \* the directory listing, in readdir order
    idx,          \* loadAgentsFromDirectory: index of the next entry
    definitions,  \* loadAgentsFromDirectory: the definitions pushed so far
    warnings,     \* debugLogger.warn calls made so far (the paths they name)
    pc,           \* loadAgentsFromDirectory: "idle", "loop", "done"
    lastIndex,    \* SECTION_HEADING_REGEX.lastIndex, module state of the loader
    calls,        \* concurrent loadAgentsFromDirectory calls: locals of each
    gen,          \* handleGenerateAgent: its arguments, locals and position
    disk,         \* the destination directory and the file at outputPath
    modelCalls    \* geminiClient.generateContent calls made so far

vars == <<doc, written, phase, result, dirState, dirEntries, idx, definitions, warnings, pc,
          lastIndex, calls, gen, disk, modelCalls>>

-----------------------------------------------------------------------------
(* Strings                                                                 *)

NL == "\n"
SP == " "
\* The code fence: three backquotes, one indivisible lexeme.
FENCE == "<fence>"

IsWs(c) == c = SP \/ c = NL

SetMin(S) == CHOOSE x \in S : \A y \in S : x <= y
SetMax(S) == CHOOSE x \in S : \A y \in S : x >= y

\* String.prototype.toLowerCase on one lexeme.
Lower(c) ==
    CASE c = "Agent:"  -> "agent:"
      [] c = "AGENT:"  -> "agent:"
      [] c = "JSON"    -> "json"
      [] c = "Json"    -> "json"
      [] c = "Inputs"  -> "inputs"
      [] c = "Output"  -> "output"
      [] c = "Tools"   -> "tools"
      [] c = "TOOLS"   -> "tools"
      [] c = "MCP"     -> "mcp"
      [] c = "Model"   -> "model"
      [] c = "Run"     -> "run"
      [] c = "Config"  -> "config"
      [] c = "Summary" -> "summary"
      [] c = "Role"    -> "role"
      [] c = "Persona" -> "persona"
      [] c = "Query"   -> "query"
      [] c = "System"  -> "system"
      [] c = "Prompt"  -> "prompt"
      [] c = "Guidelines" -> "guidelines"
      [] c = "String"  -> "string"
      [] c = "NUMBER"  -> "number"
      [] c = ".AGENT"  -> ".agent"
      [] c = ".MD"     -> ".md"
      [] c = "X"       -> "x"
      [] c = "Bob"     -> "bob"
      [] OTHER         -> c

toLowerCase(s) == [i \in 1..Len(s) |-> Lower(s[i])]

\* String.prototype.trim
trim(s) ==
    LET keep == {i \in 1..Len(s) : ~IsWs(s[i])}
    IN  IF keep = {} THEN <<>> ELSE SubSeq(s, SetMin(keep), SetMax(keep))

\* The first index at or after p whose lexeme is not white space (Len+1 if none).
SkipWs(s, p) ==
    LET S == {i \in p..Len(s) : ~IsWs(s[i])}
    IN  IF S = {} THEN Len(s) + 1 ELSE SetMin(S)

\* The first index at or after p holding a line terminator (Len+1 if none).
LineEnd(s, p) ==
    LET S == {i \in p..Len(s) : s[i] = NL}
    IN  IF S = {} THEN Len(s) + 1 ELSE SetMin(S)

\* ^ under the m flag: the start of the text or just after a line terminator.
AtLineStart(s, p) == p = 1 \/ (p > 1 /\ p <= Len(s) + 1 /\ s[p - 1] = NL)

\* Array.prototype.join
RECURSIVE Join(_, _)
Join(parts, sep) ==
    IF parts = <<>> THEN <<>>
    ELSE IF Len(parts) = 1 THEN parts[1]
    ELSE parts[1] \o sep \o Join(Tail(parts), sep)

\* String.prototype.split('\n')
RECURSIVE SplitLines(_)
SplitLines(s) ==
    LET e == LineEnd(s, 1)
    IN  IF e > Len(s) THEN <<s>>
        ELSE <<SubSeq(s, 1, e - 1)>> \o SplitLines(SubSeq(s, e + 1, Len(s)))


-----------------------------------------------------------------------------
(* JavaScript values: what JSON.parse returns, and undefined                *)

UNDEF    == [k |-> "undef", v |-> 0]
JNull    == [k |-> "null", v |-> 0]
JBool(b) == [k |-> "bool", v |-> b]
JNum(n)  == [k |-> "num", v |-> n]
\* A number too large for a double (1e999): JSON.parse returns Infinity.
JInf     == [k |-> "inf", v |-> 0]
JStr(s)  == [k |-> "str", v |-> s]
JArr(a)  == [k |-> "arr", v |-> a]
JObj(o)  == [k |-> "obj", v |-> o]

IsUndef(x)  == x.k = "undef"
IsNullish(x) == x.k \in {"undef", "null"}
IsString(x) == x.k = "str"
\* typeof x === 'number'
IsNumber(x) == x.k \in {"num", "inf"}
\* ToBoolean
Truthy(x) ==
    CASE x.k \in {"undef", "null"} -> FALSE
      [] x.k = "bool" -> x.v
      [] x.k = "num"  -> x.v /= 0
      [] x.k = "str"  -> x.v /= <<>>
      [] OTHER        -> TRUE
\* x[name] for a value that is neither null nor undefined
Prop(x, name) ==
    IF x.k = "obj" /\ name \in DOMAIN x.v THEN x.v[name] ELSE UNDEF

\* The outcome of a call: a value, or the error it threw.
NoError == [kind |-> "none", key |-> <<>>]
Ok(x) == [ok |-> TRUE, val |-> x, err |-> NoError]
Throw(kind, key) == [ok |-> FALSE, val |-> UNDEF, err |-> [kind |-> kind, key |-> key]]

-----------------------------------------------------------------------------
(* The three regular expressions                                           *)

\* AGENT_NAME_REGEX = /^#\s*Agent:\s*(.+)$/im tried at position p.
\* Both \s* may run over line terminators.  The second \s* is greedy and
\* gives back only when nothing but white space follows it to the end of
\* the text: (.+) then starts at the last white-space character that is not
\* a line terminator, if there is one.
NameMatchAt(md, p) ==
    LET miss == [hit |-> FALSE, cap |-> <<>>]
        \* (.+)$ from index s: the rest of the line
        Line(s) == [hit |-> TRUE, cap |-> SubSeq(md, s, LineEnd(md, s) - 1)]
        Capture(b, blanks) ==
            IF b <= Len(md) THEN Line(b)
            ELSE IF blanks /= {} THEN Line(SetMax(blanks))
            ELSE miss
        Label(a) ==
            IF a <= Len(md) /\ Lower(md[a]) = "agent:"
            THEN Capture(SkipWs(md, a + 1), {i \in (a + 1)..Len(md) : md[i] /= NL})
            ELSE miss
    IN  IF AtLineStart(md, p) /\ p <= Len(md) /\ md[p] = "#"
        THEN Label(SkipWs(md, p + 1))
        ELSE miss

\* SECTION_HEADING_REGEX = /^##\s+(.+?)\s*$/gm tried at position p.
\* cap is group 1, end the index just after the match.
HeadingMatchAt(md, p) ==
    LET q == p + 2
        miss == [hit |-> FALSE, cap |-> <<>>, end |-> p]
        \* nothing but white space up to the end of the text: \s+ gives back
        \* its last character to (.+?) when that character is a space
        Blank ==
            IF \E i \in (q + 1)..Len(md) : md[i] = SP
            THEN [hit |-> TRUE, cap |-> <<SP>>, end |-> Len(md) + 1]
            ELSE miss
        End(capEnd, t) ==
            IF t > Len(md) THEN Len(md) + 1
            ELSE SetMax({i \in (capEnd + 1)..(t - 1) : md[i] = NL})
        Close(w, capEnd) ==
            [hit |-> TRUE,
             cap |-> SubSeq(md, w, capEnd),
             end |-> End(capEnd, SkipWs(md, capEnd + 1))]
        Title(w) ==
            IF w <= q THEN miss
            ELSE IF w <= Len(md)
            THEN Close(w, SetMax({i \in w..(LineEnd(md, w) - 1) : ~IsWs(md[i])}))
            ELSE Blank
    IN  IF AtLineStart(md, p) /\ p + 1 <= Len(md) /\ md[p] = "#" /\ md[p + 1] = "#"
        THEN Title(SkipWs(md, q))
        ELSE miss

\* markdown.matchAll(SECTION_HEADING_REGEX), searching on from index `from`.
RECURSIVE matchAllHeadings(_, _)
matchAllHeadings(md, from) ==
    LET Emit(p, m) ==
            <<[index |-> p, cap |-> m.cap, end |-> m.end]>>
            \o matchAllHeadings(md, m.end)
        At(p) == Emit(p, HeadingMatchAt(md, p))
        First(hits) == IF hits = {} THEN <<>> ELSE At(SetMin(hits))
    IN  First({p \in from..Len(md) : HeadingMatchAt(md, p).hit})

\* The matches collected by stepping SECTION_HEADING_REGEX itself, which is
\* left just after the last match.
matchAllInPlace(md, regexLastIndex) ==
    LET Left(matches) ==
            [matches |-> matches,
             lastIndex |-> IF matches = <<>> THEN regexLastIndex
                           ELSE matches[Len(matches)].end - 1]
    IN  Left(matchAllHeadings(md, regexLastIndex + 1))

\* [...markdown.matchAll(SECTION_HEADING_REGEX)] when the expression's
\* lastIndex is regexLastIndex: the iterator steps a copy of the expression
\* that starts at that index, and the expression itself is not written.
\* lastIndex is the value the expression has afterwards.
matchAll(md, regexLastIndex) ==
    LET Left(matches) == [matches |-> matches, lastIndex |-> regexLastIndex]
    IN  Left(matchAllHeadings(md, regexLastIndex + 1))

\* section.match with the last labelled fence taken instead of the first.
JsonBlockMatchLast(section) ==
    LET Block(w) ==
            [hit |-> TRUE,
             cap |-> SubSeq(section, w,
                            SetMin({i \in w..Len(section) : section[i] = FENCE}) - 1)]
        First(starts) ==
            IF starts = {} THEN [hit |-> FALSE, cap |-> <<>>]
            ELSE Block(SkipWs(section, SetMax(starts) + 2))
    IN  First({p \in 1..(Len(section) - 2) :
                  /\ section[p] = FENCE
                  /\ Lower(section[p + 1]) = "json"
                  /\ \E f \in (p + 2)..Len(section) : section[f] = FENCE})

\* section.match(JSON_BLOCK_REGEX), JSON_BLOCK_REGEX = /```json\s*([\s\S]*?)```/i:
\* the first fence that carries the label and has a fence after it; group 1
\* runs from the first non-blank after the label to the next fence.
JsonBlockMatch(section) ==
    LET Block(w) ==
            [hit |-> TRUE,
             cap |-> SubSeq(section, w,
                            SetMin({i \in w..Len(section) : section[i] = FENCE}) - 1)]
        First(starts) ==
            IF starts = {} THEN [hit |-> FALSE, cap |-> <<>>]
            ELSE Block(SkipWs(section, SetMin(starts) + 2))
    IN  First({p \in 1..(Len(section) - 2) :
                  /\ section[p] = FENCE
                  /\ Lower(section[p + 1]) = "json"
                  /\ \E f \in (p + 2)..Len(section) : section[f] = FENCE})

\* section.replace(/```[\s\S]*?```/g, ''): every fence up to the next fence
\* after it is removed, left to right.
RECURSIVE StripFences(_)
StripFences(section) ==
    LET Closing(p) == SetMin({i \in (p + 1)..Len(section) : section[i] = FENCE})
        Cut(p) ==
            SubSeq(section, 1, p - 1)
            \o StripFences(SubSeq(section, Closing(p) + 1, Len(section)))
        First(opens) == IF opens = {} THEN section ELSE Cut(SetMin(opens))
    IN  First({p \in 1..Len(section) :
                  /\ section[p] = FENCE
                  /\ \E f \in (p + 1)..Len(section) : section[f] = FENCE})


-----------------------------------------------------------------------------
(* JSON texts.  A JSON text is one lexeme; JSON.parse is its table.        *)

Q(w) == <<w>>

\* JSON Schema fragments of the Output texts.
StringSchema == JObj([type |-> JStr(Q("string"))])
\* properties {a: string}, required [a]
ObjectSchemaA ==
    JObj([type |-> JStr(Q("object")),
          properties |-> JObj([a |-> StringSchema]),
          required |-> JArr(<<JStr(Q("a"))>>)])
\* properties {a: string, n: number}, required [a]
ObjectSchemaAN ==
    JObj([type |-> JStr(Q("object")),
          properties |-> JObj([a |-> StringSchema,
                               n |-> JObj([type |-> JStr(Q("number"))])]),
          required |-> JArr(<<JStr(Q("a"))>>)])
\* properties {a: {}}, required [a]
ObjectSchemaAnyA ==
    JObj([type |-> JStr(Q("object")),
          properties |-> JObj([a |-> JObj(<<>>)]),
          required |-> JArr(<<JStr(Q("a"))>>)])
\* properties {a: 5}, required "a"
ObjectSchemaLoose ==
    JObj([type |-> JStr(Q("object")),
          properties |-> JObj([a |-> JNum(5)]),
          required |-> JStr(Q("a"))])
\* properties {o: <properties {a: string}, required [a]>}, required [o, z]
ObjectSchemaNested ==
    JObj([type |-> JStr(Q("object")),
          properties |-> JObj([o |-> ObjectSchemaA]),
          required |-> JArr(<<JStr(Q("o")), JStr(Q("z"))>>)])
\* arrays nested n deep around a string
RECURSIVE ArraySchema(_)
ArraySchema(n) ==
    IF n = 0 THEN StringSchema
    ELSE JObj([type |-> JStr(Q("array")), items |-> ArraySchema(n - 1)])
JsonOutput(schema) == JObj([type |-> JStr(Q("json")), schema |-> schema])

OutputJsonTexts ==
    { "{\"type\":\"json\",\"schema\":{\"type\":\"object\",\"properties\":{\"a\":{\"type\":\"string\"}},\"required\":[\"a\"]}}",
      "{\"type\":\"json\",\"schema\":{\"type\":\"object\",\"properties\":{\"a\":{\"type\":\"string\"},\"n\":{\"type\":\"number\"}},\"required\":[\"a\"]}}",
      "{\"type\":\"json\",\"schema\":{\"type\":\"object\",\"properties\":{\"a\":{}},\"required\":[\"a\"]}}",
      "{\"type\":\"json\",\"schema\":{\"type\":\"object\",\"properties\":{\"a\":5},\"required\":\"a\"}}",
      "{\"type\":\"json\",\"schema\":{\"type\":\"object\",\"properties\":{\"o\":{\"type\":\"object\",\"properties\":{\"a\":{\"type\":\"string\"}},\"required\":[\"a\"]}},\"required\":[\"o\",\"z\"]}}",
      "{\"type\":\"json\",\"schema\":{\"type\":\"object\"}}",
      "{\"type\":\"json\",\"schema\":{\"type\":\"array\",\"items\":{\"type\":\"integer\"}}}",
      "{\"type\":\"json\",\"schema\":{\"type\":\"array\"}}",
      "{\"type\":\"json\",\"schema\":{\"type\":\"array\",\"items\":{\"type\":\"array\",\"items\":{\"type\":\"string\"}}}}",
      "{\"type\":\"json\",\"schema\":{\"type\":\"array\",\"items\":{\"type\":\"array\",\"items\":{\"type\":\"array\",\"items\":{\"type\":\"array\",\"items\":{\"type\":\"array\",\"items\":{\"type\":\"array\",\"items\":{\"type\":\"string\"}}}}}}}}",
      "{\"type\":\"json\",\"schema\":{\"type\":\"boolean\"}}",
      "{\"type\":\"json\",\"schema\":{\"type\":\"date\"}}",
      "{\"type\":\"json\",\"schema\":{\"type\":5}}",
      "{\"type\":\"json\",\"schema\":{}}",
      "{\"type\":\"json\",\"schema\":[]}",
      "{\"type\":\"json\",\"schema\":\"string\"}",
      "{\"type\":\"json\",\"schema\":null}",
      "{\"type\":\"JSON\",\"schema\":{\"type\":\"string\"}}",
      "{\"type\":\"text\",\"schema\":{\"type\":\"number\"}}",
      "{\"name\":\" report \",\"description\":\"a report\"}",
      "{\"type\":\" json\"}",
      "{\"type\":true}" }

OutputJsonValue(t) ==
    CASE t = "{\"type\":\"json\",\"schema\":{\"type\":\"object\",\"properties\":{\"a\":{\"type\":\"string\"}},\"required\":[\"a\"]}}"
            -> JsonOutput(ObjectSchemaA)
      [] t = "{\"type\":\"json\",\"schema\":{\"type\":\"object\",\"properties\":{\"a\":{\"type\":\"string\"},\"n\":{\"type\":\"number\"}},\"required\":[\"a\"]}}"
            -> JsonOutput(ObjectSchemaAN)
      [] t = "{\"type\":\"json\",\"schema\":{\"type\":\"object\",\"properties\":{\"a\":{}},\"required\":[\"a\"]}}"
            -> JsonOutput(ObjectSchemaAnyA)
      [] t = "{\"type\":\"json\",\"schema\":{\"type\":\"object\",\"properties\":{\"a\":5},\"required\":\"a\"}}"
            -> JsonOutput(ObjectSchemaLoose)
      [] t = "{\"type\":\"json\",\"schema\":{\"type\":\"object\",\"properties\":{\"o\":{\"type\":\"object\",\"properties\":{\"a\":{\"type\":\"string\"}},\"required\":[\"a\"]}},\"required\":[\"o\",\"z\"]}}"
            -> JsonOutput(ObjectSchemaNested)
      [] t = "{\"type\":\"json\",\"schema\":{\"type\":\"object\"}}"
            -> JsonOutput(JObj([type |-> JStr(Q("object"))]))
      [] t = "{\"type\":\"json\",\"schema\":{\"type\":\"array\",\"items\":{\"type\":\"integer\"}}}"
            -> JsonOutput(JObj([type |-> JStr(Q("array")),
                                items |-> JObj([type |-> JStr(Q("integer"))])]))
      [] t = "{\"type\":\"json\",\"schema\":{\"type\":\"array\"}}"
            -> JsonOutput(JObj([type |-> JStr(Q("array"))]))
      [] t = "{\"type\":\"json\",\"schema\":{\"type\":\"array\",\"items\":{\"type\":\"array\",\"items\":{\"type\":\"string\"}}}}"
            -> JsonOutput(ArraySchema(2))
      [] t = "{\"type\":\"json\",\"schema\":{\"type\":\"array\",\"items\":{\"type\":\"array\",\"items\":{\"type\":\"array\",\"items\":{\"type\":\"array\",\"items\":{\"type\":\"array\",\"items\":{\"type\":\"array\",\"items\":{\"type\":\"string\"}}}}}}}}"
            -> JsonOutput(ArraySchema(6))
      [] t = "{\"type\":\"json\",\"schema\":{\"type\":\"boolean\"}}"
            -> JsonOutput(JObj([type |-> JStr(Q("boolean"))]))
      [] t = "{\"type\":\"json\",\"schema\":{\"type\":\"date\"}}"
            -> JsonOutput(JObj([type |-> JStr(Q("date"))]))
      [] t = "{\"type\":\"json\",\"schema\":{\"type\":5}}"
            -> JsonOutput(JObj([type |-> JNum(5)]))
      [] t = "{\"type\":\"json\",\"schema\":{}}" -> JsonOutput(JObj(<<>>))
      [] t = "{\"type\":\"json\",\"schema\":[]}" -> JsonOutput(JArr(<<>>))
      [] t = "{\"type\":\"json\",\"schema\":\"string\"}" -> JsonOutput(JStr(Q("string")))
      [] t = "{\"type\":\"json\",\"schema\":null}" -> JsonOutput(JNull)
      [] t = "{\"type\":\"JSON\",\"schema\":{\"type\":\"string\"}}"
            -> JObj([type |-> JStr(Q("JSON")), schema |-> StringSchema])
      [] t = "{\"type\":\"text\",\"schema\":{\"type\":\"number\"}}"
            -> JObj([type |-> JStr(Q("text")),
                     schema |-> JObj([type |-> JStr(Q("number"))])])
      [] t = "{\"name\":\" report \",\"description\":\"a report\"}"
            -> JObj([name |-> JStr(<<SP, "report", SP>>),
                     description |-> JStr(<<"a", SP, "report">>)])
      [] t = "{\"type\":\" json\"}" -> JObj([type |-> JStr(<<SP, "json">>)])
      [] t = "{\"type\":true}" -> JObj([type |-> JBool(TRUE)])

\* Tools and MCP texts.
ListJsonTexts ==
    { "[\" grep \",\"ls\",\"grep\"]",
      "[\"ls\",\"\",\"grep\",\"ls\",\" \"]",
      "[1,true,\"ls\"]",
      "[null,\"ls\"]",
      "[[\"a\",\"b\"],{}]",
      "[\"\",\" \",null]",
      "\"grep\"",
      "{\"0\":\"grep\"}" }

ListJsonValue(t) ==
    CASE t = "[\" grep \",\"ls\",\"grep\"]"
            -> JArr(<<JStr(<<SP, "grep", SP>>), JStr(Q("ls")), JStr(Q("grep"))>>)
      [] t = "[\"ls\",\"\",\"grep\",\"ls\",\" \"]"
            -> JArr(<<JStr(Q("ls")), JStr(<<>>), JStr(Q("grep")), JStr(Q("ls")),
                      JStr(<<SP>>)>>)
      [] t = "[1,true,\"ls\"]" -> JArr(<<JNum(1), JBool(TRUE), JStr(Q("ls"))>>)
      [] t = "[null,\"ls\"]" -> JArr(<<JNull, JStr(Q("ls"))>>)
      [] t = "[[\"a\",\"b\"],{}]"
            -> JArr(<<JArr(<<JStr(Q("a")), JStr(Q("b"))>>), JObj(<<>>)>>)
      [] t = "[\"\",\" \",null]" -> JArr(<<JStr(<<>>), JStr(<<SP>>), JNull>>)
      [] t = "\"grep\"" -> JStr(Q("grep"))
      [] t = "{\"0\":\"grep\"}" -> JObj("0" :> JStr(Q("grep")))

\* Model texts.
ModelJsonTexts ==
    { "{\"model\":\" gemini-pro \"}",
      "{\"model\":\"\"}",
      "{\"model\":\"  \"}",
      "{\"model\":5}",
      "{\"model\":null,\"temperature\":1}",
      "{\"temperature\":1}",
      "\"gemini-pro\"",
      "[\"gemini-pro\"]" }

ModelJsonValue(t) ==
    CASE t = "{\"model\":\" gemini-pro \"}"
            -> JObj([model |-> JStr(<<SP, "gemini-pro", SP>>)])
      [] t = "{\"model\":\"\"}" -> JObj([model |-> JStr(<<>>)])
      [] t = "{\"model\":\"  \"}" -> JObj([model |-> JStr(<<SP, SP>>)])
      [] t = "{\"model\":5}" -> JObj([model |-> JNum(5)])
      [] t = "{\"model\":null,\"temperature\":1}"
            -> JObj([model |-> JNull, temperature |-> JNum(1)])
      [] t = "{\"temperature\":1}" -> JObj([temperature |-> JNum(1)])
      [] t = "\"gemini-pro\"" -> JStr(Q("gemini-pro"))
      [] t = "[\"gemini-pro\"]" -> JArr(<<JStr(Q("gemini-pro"))>>)

JsonTexts ==
    { "null", "0", "14", "{}", "[]", "{oops",
      "{\"max_turns\":14,\"max_time_minutes\":7}",
      "{\"max_turns\":3}",
      "{\"max_turns\":0,\"max_time_minutes\":-2}",
      "{\"max_turns\":-1}",
      "{\"max_turns\":\"5\",\"max_time_minutes\":null}",
      "{\"max_turns\":1e999,\"max_time_minutes\":1e999}",
      "{\"max_time_minutes\":7}",
      "[{\"name\":\"topic\",\"type\":\"string\"}]",
      "[{\"name\":\" hints \",\"type\":\"String\",\"required\":false}]",
      "[{\"name\":\"n\",\"type\":\"integer\",\"required\":true},{\"name\":\"topic\",\"type\":\"string\"}]",
      "[{\"name\":\"bad\",\"type\":\"date\"},{\"name\":\"topic\",\"type\":\"string\"}]",
      "[{\"name\":\"bad\",\"type\":\"date\"}]",
      "[{\"name\":\"\",\"type\":\"string\"},{\"type\":\"number\"}]",
      "[{\"name\":\"a\",\"type\":5},{\"name\":\"topic\",\"type\":\"string\"}]",
      "[null]",
      "{\"name\":\"topic\",\"type\":\"string\"}",
      "[\"grep\",\"ls\"]",
      "[\"docs\"]",
      "{\"model\":\"gemini-pro\",\"temperature\":1}",
      "{\"type\":\"json\"}" } \cup OutputJsonTexts \cup ListJsonTexts \cup ModelJsonTexts

TopicInput == JObj([name |-> JStr(Q("topic")), type |-> JStr(Q("string"))])
BadInput   == JObj([name |-> JStr(Q("bad")), type |-> JStr(Q("date"))])

\* JSON.parse of one lexeme; "{oops" and every lexeme outside JsonTexts is
\* not JSON.
JsonValue(t) ==
    CASE t = "null" -> JNull
      [] t = "0"    -> JNum(0)
      [] t = "14"   -> JNum(14)
      [] t = "{}"   -> JObj(<<>>)
      [] t = "[]"   -> JArr(<<>>)
      [] t = "{\"max_turns\":14,\"max_time_minutes\":7}"
            -> JObj([max_turns |-> JNum(14), max_time_minutes |-> JNum(7)])
      [] t = "{\"max_turns\":3}"
            -> JObj([max_turns |-> JNum(3)])
      [] t = "{\"max_turns\":0,\"max_time_minutes\":-2}"
            -> JObj([max_turns |-> JNum(0), max_time_minutes |-> JNum(-2)])
      [] t = "{\"max_turns\":-1}"
            -> JObj([max_turns |-> JNum(-1)])
      [] t = "{\"max_turns\":\"5\",\"max_time_minutes\":null}"
            -> JObj([max_turns |-> JStr(Q("5")), max_time_minutes |-> JNull])
      [] t = "{\"max_turns\":1e999,\"max_time_minutes\":1e999}"
            -> JObj([max_turns |-> JInf, max_time_minutes |-> JInf])
      [] t = "{\"max_time_minutes\":7}"
            -> JObj([max_time_minutes |-> JNum(7)])
      [] t = "[{\"name\":\"topic\",\"type\":\"string\"}]"
            -> JArr(<<TopicInput>>)
      [] t = "[{\"name\":\" hints \",\"type\":\"String\",\"required\":false}]"
            -> JArr(<<JObj([name |-> JStr(<<SP, "hints", SP>>),
                            type |-> JStr(Q("String")),
                            required |-> JBool(FALSE)])>>)
      [] t = "[{\"name\":\"n\",\"type\":\"integer\",\"required\":true},{\"name\":\"topic\",\"type\":\"string\"}]"
            -> JArr(<<JObj([name |-> JStr(Q("n")), type |-> JStr(Q("integer")),
                            required |-> JBool(TRUE)]),
                      TopicInput>>)
      [] t = "[{\"name\":\"bad\",\"type\":\"date\"},{\"name\":\"topic\",\"type\":\"string\"}]"
            -> JArr(<<BadInput, TopicInput>>)
      [] t = "[{\"name\":\"bad\",\"type\":\"date\"}]"
            -> JArr(<<BadInput>>)
      [] t = "[{\"name\":\"\",\"type\":\"string\"},{\"type\":\"number\"}]"
            -> JArr(<<JObj([name |-> JStr(<<>>), type |-> JStr(Q("string"))]),
                      JObj([type |-> JStr(Q("number"))])>>)
      [] t = "[{\"name\":\"a\",\"type\":5},{\"name\":\"topic\",\"type\":\"string\"}]"
            -> JArr(<<JObj([name |-> JStr(Q("a")), type |-> JNum(5)]), TopicInput>>)
      [] t = "[null]" -> JArr(<<JNull>>)
      [] t = "{\"name\":\"topic\",\"type\":\"string\"}" -> TopicInput
      [] t = "[\"grep\",\"ls\"]" -> JArr(<<JStr(Q("grep")), JStr(Q("ls"))>>)
      [] t = "[\"docs\"]" -> JArr(<<JStr(Q("docs"))>>)
      [] t = "{\"model\":\"gemini-pro\",\"temperature\":1}"
            -> JObj([model |-> JStr(Q("gemini-pro")), temperature |-> JNum(1)])
      [] t = "{\"type\":\"json\"}" -> JObj([type |-> JStr(Q("json"))])
      [] t \in OutputJsonTexts -> OutputJsonValue(t)
      [] t \in ListJsonTexts -> ListJsonValue(t)
      [] t \in ModelJsonTexts -> ModelJsonValue(t)

\* JSON.parse(text): white space around the one value is allowed, anything
\* else (no value, two values, prose) is a SyntaxError.
JSONparse(text) ==
    LET Value(t) ==
            IF Len(t) = 1 /\ t[1] \in JsonTexts /\ t[1] /= "{oops"
            THEN Ok(JsonValue(t[1]))
            ELSE Throw("SyntaxError", <<>>)
    IN  Value(trim(text))

-----------------------------------------------------------------------------
(* parseAgentMarkdown, step by step                                        *)

\* extractAgentName with the captured name left untrimmed.
extractAgentNameUntrimmed(md) ==
    LET Named(name) == IF name = <<>> THEN Throw("EmptyName", <<>>) ELSE Ok(name)
        First(hits) ==
            IF hits = {} THEN Throw("MissingHeader", <<>>)
            ELSE Named(NameMatchAt(md, SetMin(hits)).cap)
    IN  First({p \in 1..Len(md) : NameMatchAt(md, p).hit})

\* extractAgentName without the test for an empty name.
extractAgentNameUnchecked(md) ==
    LET First(hits) ==
            IF hits = {} THEN Throw("MissingHeader", <<>>)
            ELSE Ok(trim(NameMatchAt(md, SetMin(hits)).cap))
    IN  First({p \in 1..Len(md) : NameMatchAt(md, p).hit})

\* extractAgentName(markdown, source)
extractAgentName(md) ==
    LET Named(name) == IF name = <<>> THEN Throw("EmptyName", <<>>) ELSE Ok(name)
        First(hits) ==
            IF hits = {} THEN Throw("MissingHeader", <<>>)
            ELSE Named(trim(NameMatchAt(md, SetMin(hits)).cap))
    IN  First({p \in 1..Len(md) : NameMatchAt(md, p).hit})

\* extractSections(markdown) in a module whose SECTION_HEADING_REGEX has the
\* given lastIndex: the Map, as a function from heading to content, and the
\* lastIndex the call leaves.  A later sections.set of the same heading
\* replaces the earlier one.
extractSectionsWith(md, regexLastIndex) ==
    LET Map(matches) ==
            LET n == Len(matches)
                heading(i) == toLowerCase(trim(matches[i].cap))
                stop(i) == IF i + 1 <= n THEN matches[i + 1].index ELSE Len(md) + 1
                content(i) == trim(SubSeq(md, matches[i].end, stop(i) - 1))
                last(h) == SetMax({i \in 1..n : heading(i) = h})
            IN  [h \in {heading(i) : i \in 1..n} |-> content(last(h))]
        Of(found) == [sections |-> Map(found.matches), lastIndex |-> found.lastIndex]
    IN  Of(matchAll(md, regexLastIndex))

\* extractSections(markdown) in a module that has just been loaded.
extractSections(md) == extractSectionsWith(md, 0).sections

\* sections.get(key)
SectionGet(sections, key) ==
    IF key \in DOMAIN sections THEN JStr(sections[key]) ELSE UNDEF

\* getText(key) of buildConfigFromSections
getText(sections, key) ==
    LET Text(text) == IF text = <<>> THEN UNDEF ELSE JStr(text)
        Of(section) ==
            IF ~Truthy(section) THEN UNDEF
            ELSE Text(trim(StripFences(section.v)))
    IN  Of(SectionGet(sections, key))

\* parseJsonSection with a section that has no block treated as absent.
parseJsonSectionLenient(sections, key) ==
    LET Parsed(parsed) == IF ~parsed.ok THEN Throw("InvalidJson", key) ELSE parsed
        Matched(match) ==
            IF ~match.hit THEN Ok(UNDEF)
            ELSE Parsed(JSONparse(match.cap))
        Of(section) ==
            IF ~Truthy(section) THEN Ok(UNDEF)
            ELSE Matched(JsonBlockMatch(section.v))
    IN  Of(SectionGet(sections, key))

\* parseJsonSection with an absent section treated as a missing block.
parseJsonSectionRequired(sections, key) ==
    LET Parsed(parsed) == IF ~parsed.ok THEN Throw("InvalidJson", key) ELSE parsed
        Matched(match) ==
            IF ~match.hit THEN Throw("ExpectedJsonBlock", key)
            ELSE Parsed(JSONparse(match.cap))
        Of(section) ==
            IF ~Truthy(section) THEN Throw("ExpectedJsonBlock", key)
            ELSE Matched(JsonBlockMatch(section.v))
    IN  Of(SectionGet(sections, key))

\* parseJsonSection(key) of buildConfigFromSections
parseJsonSection(sections, key) ==
    LET Parsed(parsed) == IF ~parsed.ok THEN Throw("InvalidJson", key) ELSE parsed
        Matched(match) ==
            IF ~match.hit THEN Throw("ExpectedJsonBlock", key)
            ELSE Parsed(JSONparse(match.cap))
        Of(section) ==
            IF ~Truthy(section) THEN Ok(UNDEF)
            ELSE Matched(JsonBlockMatch(section.v))
    IN  Of(SectionGet(sections, key))


\* extractGuidelines(section)
extractGuidelines(section) ==
    LET NonEmpty(line) == Len(line) > 0
        IsBullet(line) == line[1] = "-"
        Trimmed(split) == [i \in 1..Len(split) |-> trim(split[i])]
        \* line.replace(/^-+\s*/, '').trim()
        After(line, rest) ==
            IF rest = {} THEN <<>> ELSE trim(SubSeq(line, SetMin(rest), Len(line)))
        Strip(line) == After(line, {i \in 1..Len(line) : line[i] /= "-"})
        Stripped(marked) == [i \in 1..Len(marked) |-> Strip(marked[i])]
        Pick(lines, bullets) ==
            IF Len(bullets) > 0 THEN JArr(bullets)
            ELSE IF Len(lines) > 0 THEN JArr(<<Join(lines, <<SP>>)>>)
            ELSE UNDEF
        Of(lines) ==
            Pick(lines, SelectSeq(Stripped(SelectSeq(lines, IsBullet)), NonEmpty))
    IN  IF ~Truthy(section) THEN UNDEF
        ELSE Of(SelectSeq(Trimmed(SplitLines(section.v)), NonEmpty))

ALLOWED_INPUT_TYPES ==
    { <<"string">>, <<"number">>, <<"boolean">>, <<"integer">>,
      <<"string[]">>, <<"number[]">> }

\* x?.trim() on a property value: undefined for null and undefined, the
\* trimmed string for a string, a TypeError (x.trim is not a function) else.
OptTrim(x) ==
    IF IsNullish(x) THEN Ok(UNDEF)
    ELSE IF IsString(x) THEN Ok(JStr(trim(x.v)))
    ELSE Throw("TypeError", <<>>)

\* x?.toLowerCase()
OptLower(x) ==
    IF IsNullish(x) THEN Ok(UNDEF)
    ELSE IF IsString(x) THEN Ok(JStr(toLowerCase(x.v)))
    ELSE Throw("TypeError", <<>>)

\* The callback of inputs.map in parseInputs, for one element.
SanitizeInput(input) ==
    LET Lowered(trimmedType) ==
            IF trimmedType.ok THEN OptLower(trimmedType.val) ELSE trimmedType
        Build(name, type, required, description) ==
            IF IsNullish(input) \/ ~name.ok \/ ~type.ok \/ ~description.ok
            THEN Throw("TypeError", <<>>)
            ELSE Ok([name |-> name.val,
                     type |-> type.val,
                     required |-> IF IsNullish(required) THEN JBool(TRUE) ELSE required,
                     description |-> IF IsNullish(description.val) THEN JStr(<<>>)
                                     ELSE description.val])
    IN  Build(OptTrim(Prop(input, "name")),
              Lowered(OptTrim(Prop(input, "type"))),
              Prop(input, "required"),
              OptTrim(Prop(input, "description")))

\* The type filter of parseInputs.
InputTypeAllowed(input) == input.type.v \in ALLOWED_INPUT_TYPES

\* parseInputs(inputs)
parseInputs(inputs) ==
    LET Named(input) == Truthy(input.name) /\ Truthy(input.type)
        Values(mapped) == [i \in 1..Len(mapped) |-> mapped[i].val]
        Valid(valid) == IF Len(valid) = 0 THEN Ok(UNDEF) ELSE Ok(JArr(valid))
        Mapped(mapped) ==
            IF \E i \in 1..Len(mapped) : ~mapped[i].ok THEN Throw("TypeError", <<>>)
            ELSE Valid(SelectSeq(SelectSeq(Values(mapped), Named), InputTypeAllowed))
    IN  IF ~Truthy(inputs) \/ (inputs.k = "arr" /\ Len(inputs.v) = 0) THEN Ok(UNDEF)
        ELSE IF inputs.k /= "arr" THEN Throw("TypeError", <<>>)
        ELSE Mapped([i \in 1..Len(inputs.v) |-> SanitizeInput(inputs.v[i])])

\* parseOutput(output)
parseOutput(output) ==
    LET Build(name, type, description) ==
            IF ~name.ok \/ ~type.ok \/ ~description.ok THEN Throw("TypeError", <<>>)
            ELSE Ok(JObj([name |-> IF Truthy(name.val) THEN name.val.v ELSE <<"result">>,
                          type |-> IF type.val = JStr(<<"json">>) THEN "json" ELSE "text",
                          description |-> IF Truthy(description.val)
                                          THEN description.val.v ELSE <<>>,
                          schema |-> Prop(output, "schema")]))
    IN  IF ~Truthy(output) THEN Ok(UNDEF)
        ELSE Build(OptTrim(Prop(output, "name")),
                   OptLower(Prop(output, "type")),
                   OptTrim(Prop(output, "description")))

\* value?.toString() for the values a JSON array can hold.
RECURSIVE valueToString(_)
valueToString(x) ==
    CASE IsNullish(x)   -> UNDEF
      [] x.k = "str"    -> x
      [] x.k = "bool"   -> JStr(<<IF x.v THEN "true" ELSE "false">>)
      [] x.k = "num"    -> JStr(<<ToString(x.v)>>)
      [] x.k = "inf"    -> JStr(<<"Infinity">>)
      [] x.k = "obj"    -> JStr(<<"[object", SP, "Object]">>)
      \* Array.prototype.toString: the elements' strings joined by commas,
      \* with nothing for null
      [] OTHER          ->
            JStr(Join([i \in 1..Len(x.v) |->
                          IF IsNullish(x.v[i]) THEN <<>> ELSE valueToString(x.v[i]).v],
                      <<",">>))

\* The values without duplicates, each at the place of its last occurrence.
DedupeKeepLast(values) ==
    LET Last(i) == \A j \in (i + 1)..Len(values) : values[j] /= values[i]
        keep == {i \in 1..Len(values) : Last(i)}
        Nth(n) == CHOOSE i \in keep : Cardinality({j \in keep : j <= i}) = n
    IN  [n \in 1..Cardinality(keep) |-> values[Nth(n)]]

\* Array.from(new Set(values)): first occurrences, in order.
Dedupe(values) ==
    LET First(i) == \A j \in 1..(i - 1) : values[j] /= values[i]
        keep == {i \in 1..Len(values) : First(i)}
        Nth(n) == CHOOSE i \in keep : Cardinality({j \in keep : j <= i}) = n
    IN  [n \in 1..Cardinality(keep) |-> values[Nth(n)]]

\* parseStringArray(values)
parseStringArray(values) ==
    LET NonEmpty(t) == Len(t) > 0
        Text(t) == IF IsUndef(t) THEN <<>> ELSE trim(t.v)
        Sanitized(sanitized) ==
            IF Len(sanitized) = 0 THEN UNDEF ELSE JArr(Dedupe(sanitized))
    IN  IF values.k /= "arr" THEN UNDEF
        ELSE Sanitized(SelectSeq([i \in 1..Len(values.v) |->
                                     Text(valueToString(values.v[i]))],
                                 NonEmpty))

\* parseModel(model)
parseModel(model) ==
    LET Num(value) == IF IsNumber(value) THEN value ELSE UNDEF
        Build(name) ==
            IF ~name.ok THEN name
            ELSE Ok(JObj([model |-> name.val,
                          temperature |-> Num(Prop(model, "temperature")),
                          top_p |-> Num(Prop(model, "top_p")),
                          thinkingBudget |-> Num(Prop(model, "thinkingBudget"))]))
    IN  IF ~Truthy(model) THEN Ok(UNDEF)
        ELSE Build(OptTrim(Prop(model, "model")))

\* parseRunConfig(run)
parseRunConfig(run) ==
    LET Num(value) == IF IsNumber(value) THEN value ELSE UNDEF
    IN  IF ~Truthy(run) THEN UNDEF
        ELSE JObj([max_time_minutes |-> Num(Prop(run, "max_time_minutes")),
                   max_turns |-> Num(Prop(run, "max_turns"))])


\* buildConfigFromSections(name, sections, source): the ParsedAgentConfig, or
\* the error of the first step that throws.  The steps run in source order.
buildConfigFromSections(name, sections) ==
    LET Inputs(raw) == IF raw.ok THEN parseInputs(raw.val) ELSE raw
        Output(raw) == IF raw.ok THEN parseOutput(raw.val) ELSE raw
        Model(raw) == IF raw.ok THEN parseModel(raw.val) ELSE raw
        Config(guidelines, inputs, output, tools, mcp, model, run, summary, role) ==
            IF ~inputs.ok THEN inputs
            ELSE IF ~output.ok THEN output
            ELSE IF ~tools.ok THEN tools
            ELSE IF ~mcp.ok THEN mcp
            ELSE IF ~model.ok THEN model
            ELSE IF ~run.ok THEN run
            ELSE Ok([name |-> name,
                     summary |-> IF IsUndef(summary) THEN role ELSE summary,
                     persona |-> getText(sections, <<"persona">>),
                     role |-> role,
                     guidelines |-> guidelines,
                     inputs |-> inputs.val,
                     output |-> output.val,
                     tools |-> parseStringArray(tools.val),
                     mcpServers |-> parseStringArray(mcp.val),
                     model |-> model.val,
                     runConfig |-> parseRunConfig(run.val),
                     query |-> getText(sections, <<"query">>),
                     systemPrompt |-> getText(sections, <<"system", SP, "prompt">>)])
    IN  Config(extractGuidelines(SectionGet(sections, <<"guidelines">>)),
               Inputs(parseJsonSection(sections, <<"inputs">>)),
               Output(parseJsonSection(sections, <<"output">>)),
               parseJsonSection(sections, <<"tools">>),
               parseJsonSection(sections, <<"mcp">>),
               Model(parseJsonSection(sections, <<"model">>)),
               parseJsonSection(sections, <<"run", SP, "config">>),
               getText(sections, <<"summary">>),
               getText(sections, <<"role">>))

-----------------------------------------------------------------------------
(* buildAgentDefinition and its parts                                      *)

DEFAULT_MAX_TIME_MINUTES == 5
DEFAULT_MAX_TURNS == 10
\* DEFAULT_GEMINI_MODEL and DEFAULT_THINKING_MODE of ../config/models.js
DEFAULT_GEMINI_MODEL == <<"DEFAULT_GEMINI_MODEL">>
DEFAULT_THINKING_MODE == JStr(<<"DEFAULT_THINKING_MODE">>)
\* 0.2 and 0.9, kept as texts: the model has no fractions.
DEFAULT_TEMPERATURE == JStr(<<"0.2">>)
DEFAULT_TOP_P == JStr(<<"0.9">>)

DefaultInput ==
    [name |-> JStr(<<"objective">>),
     type |-> JStr(<<"string">>),
     required |-> JBool(TRUE),
     description |-> JStr(<<"Detailed description of the task to accomplish.">>)]

\* mapInputType(type)
mapInputType(type) ==
    CASE type \in {<<"number">>, <<"integer">>} -> <<"number">>
      [] type = <<"boolean">>  -> <<"boolean">>
      [] type = <<"string[]">> -> <<"string[]">>
      [] type = <<"number[]">> -> <<"number[]">>
      [] OTHER                 -> <<"string">>

\* buildInputConfig without the default input.
buildInputConfigNoDefault(inputs) ==
    LET Entry(name, input) ==
            [name |-> name,
             description |-> input.description.v,
             type |-> mapInputType(input.type.v),
             required |-> input.required]
        Entries(effectiveInputs, names) ==
            [i \in 1..Len(names) |->
                Entry(names[i],
                      effectiveInputs[SetMax({j \in 1..Len(effectiveInputs) :
                                                 effectiveInputs[j].name.v = names[i]})])]
        Of(effectiveInputs) ==
            Entries(effectiveInputs,
                    Dedupe([i \in 1..Len(effectiveInputs) |-> effectiveInputs[i].name.v]))
    IN  Of(IF Truthy(inputs) /\ Len(inputs.v) > 0 THEN inputs.v ELSE <<>>)

\* buildInputConfig(inputs).inputs: the entries of the object that
\* Object.fromEntries builds, in key order.  A repeated name keeps the place
\* of its first entry and the value of its last.
buildInputConfig(inputs) ==
    LET Entry(name, input) ==
            [name |-> name,
             description |-> input.description.v,
             type |-> mapInputType(input.type.v),
             required |-> input.required]
        Entries(effectiveInputs, names) ==
            [i \in 1..Len(names) |->
                Entry(names[i],
                      effectiveInputs[SetMax({j \in 1..Len(effectiveInputs) :
                                                 effectiveInputs[j].name.v = names[i]})])]
        Of(effectiveInputs) ==
            Entries(effectiveInputs,
                    Dedupe([i \in 1..Len(effectiveInputs) |-> effectiveInputs[i].name.v]))
    IN  Of(IF Truthy(inputs) /\ Len(inputs.v) > 0 THEN inputs.v ELSE <<DefaultInput>>)

ZAny == [z |-> "any"]
ZString == [z |-> "string"]

\* The number of nested calls of jsonSchemaToZod the call stack has room for.
StackLimit == 3

\* The outcome of a compilation that threw: RangeError (maximum call stack
\* size exceeded), the one error jsonSchemaToZod can raise.
RangeError == [z |-> "RangeError"]

\* jsonSchemaToZod(schema) called with depth - 1 calls of itself on the
\* stack: the validator, as a descriptor, or RangeError when the stack is
\* exhausted in this call or in a call it makes.
RECURSIVE jsonSchemaToZodAt(_, _)
jsonSchemaToZodAt(schema, depth) ==
    LET IsObject(x) == x.k \in {"obj", "arr"}
        Required(req) == IF req.k = "arr" THEN {req.v[i] : i \in 1..Len(req.v)} ELSE {}
        ArrayOf(items) == IF items = RangeError THEN RangeError
                          ELSE [z |-> "array", items |-> items]
        ObjectOf(compiled, required) ==
            IF \E key \in DOMAIN compiled : compiled[key] = RangeError THEN RangeError
            ELSE [z |-> "object",
                  shape |-> [key \in DOMAIN compiled |->
                                [schema |-> compiled[key],
                                 optional |-> JStr(<<key>>) \notin required]]]
        Zod(type, items, properties, required) ==
            CASE type = <<"string">>  -> ZString
              [] type = <<"number">>  -> [z |-> "number"]
              [] type = <<"integer">> -> [z |-> "integer"]
              [] type = <<"boolean">> -> [z |-> "boolean"]
              [] type = <<"array">>   ->
                    ArrayOf(IF IsObject(items) THEN jsonSchemaToZodAt(items, depth + 1)
                            ELSE ZAny)
              [] type = <<"object">>  ->
                    IF ~IsObject(properties) THEN [z |-> "record"]
                    ELSE ObjectOf([key \in DOMAIN properties.v |->
                                      IF IsObject(properties.v[key])
                                      THEN jsonSchemaToZodAt(properties.v[key], depth + 1)
                                      ELSE ZAny],
                                  required)
              [] OTHER -> ZAny
        Typed(t) == IF IsString(t) THEN t.v ELSE <<>>
    IN  IF depth > StackLimit THEN RangeError
        ELSE Zod(Typed(Prop(schema, "type")), Prop(schema, "items"),
                 Prop(schema, "properties"), Required(Prop(schema, "required")))

\* jsonSchemaToZod(schema), called from buildZodSchema
jsonSchemaToZod(schema) == jsonSchemaToZodAt(schema, 1)

\* buildZodSchema(schema) without the try/catch
buildZodSchemaUncaught(schema) ==
    IF ~Truthy(schema) \/ schema.k \notin {"obj", "arr"} THEN ZAny
    ELSE jsonSchemaToZod(schema)

\* buildZodSchema(schema)
buildZodSchema(schema) ==
    LET Caught(compiled) == IF compiled = RangeError THEN ZAny ELSE compiled
    IN  IF ~Truthy(schema) \/ schema.k \notin {"obj", "arr"} THEN ZAny
        ELSE Caught(jsonSchemaToZod(schema))

\* buildOutputConfig(output)
buildOutputConfig(output) ==
    IF ~Truthy(output)
    THEN [outputName |-> <<"result">>,
          description |-> <<"Final answer generated by the agent.">>,
          schema |-> ZString]
    ELSE [outputName |-> output.v.name,
          description |->
              IF output.v.description /= <<>> THEN output.v.description
              ELSE IF output.v.type = "json"
              THEN <<"Structured JSON output generated by the agent.">>
              ELSE <<"Textual result generated by the agent.">>,
          schema |-> IF output.v.type = "json"
                     THEN buildZodSchema(output.v.schema) ELSE ZString]

\* model?.field ?? fallback
OrDefault(spec, field, fallback) ==
    IF ~IsNullish(spec) /\ ~IsNullish(Prop(spec, field))
    THEN Prop(spec, field) ELSE fallback

\* buildModelConfig with ?? in place of || for the model name.
buildModelConfigNullish(model) ==
    [model |-> IF ~IsNullish(model) /\ ~IsNullish(Prop(model, "model"))
               THEN Prop(model, "model").v ELSE DEFAULT_GEMINI_MODEL,
     temp |-> OrDefault(model, "temperature", DEFAULT_TEMPERATURE),
     top_p |-> OrDefault(model, "top_p", DEFAULT_TOP_P),
     thinkingBudget |-> OrDefault(model, "thinkingBudget", DEFAULT_THINKING_MODE)]

\* buildModelConfig(model)
buildModelConfig(model) ==
    [model |-> IF ~IsNullish(model) /\ Truthy(Prop(model, "model"))
               THEN Prop(model, "model").v ELSE DEFAULT_GEMINI_MODEL,
     temp |-> OrDefault(model, "temperature", DEFAULT_TEMPERATURE),
     top_p |-> OrDefault(model, "top_p", DEFAULT_TOP_P),
     thinkingBudget |-> OrDefault(model, "thinkingBudget", DEFAULT_THINKING_MODE)]

\* The limit test with zero let through.
IsNonNegativeFinite(x) == x.k = "num" /\ x.v >= 0

\* The test buildRunConfig applies to each limit:
\* typeof x === 'number' && Number.isFinite(x) && x > 0
IsPositiveFinite(x) == x.k = "num" /\ x.v > 0

\* buildRunConfig(runConfig)
buildRunConfig(runConfig) ==
    LET Field(name) == IF IsNullish(runConfig) THEN UNDEF ELSE Prop(runConfig, name)
        Limit(value, fallback) ==
            IF IsPositiveFinite(value) THEN value ELSE JNum(fallback)
    IN  [max_time_minutes |-> Limit(Field("max_time_minutes"), DEFAULT_MAX_TIME_MINUTES),
         max_turns |-> Limit(Field("max_turns"), DEFAULT_MAX_TURNS)]

\* buildToolConfig(tools)
buildToolConfig(tools) ==
    IF ~Truthy(tools) \/ Len(tools.v) = 0 THEN UNDEF ELSE JObj([tools |-> tools.v])


\* buildSystemPrompt with the closing sentence added to an explicit prompt
\* too.
buildSystemPromptAlwaysCloses(config) ==
    LET opening ==
            IF Truthy(config.role) \/ Truthy(config.summary)
            THEN <<"You are **">> \o config.name \o <<"**,", SP>>
                 \o (IF ~IsNullish(config.role) THEN config.role.v ELSE config.summary.v)
                 \o <<".">>
            ELSE <<"You are **">> \o config.name \o <<"**, a specialized assistant.">>
        persona ==
            IF Truthy(config.persona)
            THEN << <<"Persona:", NL>> \o config.persona.v >> ELSE <<>>
        bullets ==
            [i \in 1..Len(config.guidelines.v) |-> <<"-", SP>> \o config.guidelines.v[i]]
        guidelines ==
            IF Truthy(config.guidelines) /\ Len(config.guidelines.v) > 0
            THEN << <<"Follow these guidelines:", NL>> \o Join(bullets, <<NL>>) >>
            ELSE <<>>
        closing ==
            <<"Think step-by-step, justify your reasoning, and provide actionable, concrete outputs.">>
        segments == <<opening>> \o persona \o guidelines \o <<closing>>
    IN  IF Truthy(config.systemPrompt)
        THEN trim(config.systemPrompt.v) \o <<NL, NL>> \o closing
        ELSE trim(Join(segments, <<NL, NL>>))

\* buildSystemPrompt(config)
buildSystemPrompt(config) ==
    LET opening ==
            IF Truthy(config.role) \/ Truthy(config.summary)
            THEN <<"You are **">> \o config.name \o <<"**,", SP>>
                 \o (IF ~IsNullish(config.role) THEN config.role.v ELSE config.summary.v)
                 \o <<".">>
            ELSE <<"You are **">> \o config.name \o <<"**, a specialized assistant.">>
        persona ==
            IF Truthy(config.persona)
            THEN << <<"Persona:", NL>> \o config.persona.v >> ELSE <<>>
        bullets ==
            [i \in 1..Len(config.guidelines.v) |-> <<"-", SP>> \o config.guidelines.v[i]]
        guidelines ==
            IF Truthy(config.guidelines) /\ Len(config.guidelines.v) > 0
            THEN << <<"Follow these guidelines:", NL>> \o Join(bullets, <<NL>>) >>
            ELSE <<>>
        closing ==
            <<"Think step-by-step, justify your reasoning, and provide actionable, concrete outputs.">>
        segments == <<opening>> \o persona \o guidelines \o <<closing>>
    IN  IF Truthy(config.systemPrompt) THEN trim(config.systemPrompt.v)
        ELSE trim(Join(segments, <<NL, NL>>))

\* appendToolingContext with the MCP sentence put before the tool sentence.
appendToolingContextMcpFirst(prompt, tools, mcpServers) ==
    LET toolLine ==
            IF Truthy(tools) /\ Len(tools.v) > 0
            THEN << <<"You can invoke the following tools when needed:", SP>>
                    \o Join(tools.v, <<",", SP>>) \o <<".">> >>
            ELSE <<>>
        mcpLine ==
            IF Truthy(mcpServers) /\ Len(mcpServers.v) > 0
            THEN << <<"You have access to these MCP servers:", SP>>
                    \o Join(mcpServers.v, <<",", SP>>)
                    \o <<". Use them when they can provide better context or direct actions.">> >>
            ELSE <<>>
        With(additions) ==
            IF Len(additions) = 0 THEN prompt
            ELSE trim(prompt \o <<NL, NL>> \o Join(additions, <<NL>>))
    IN  With(mcpLine \o toolLine)

\* appendToolingContext(prompt, tools, mcpServers)
appendToolingContext(prompt, tools, mcpServers) ==
    LET toolLine ==
            IF Truthy(tools) /\ Len(tools.v) > 0
            THEN << <<"You can invoke the following tools when needed:", SP>>
                    \o Join(tools.v, <<",", SP>>) \o <<".">> >>
            ELSE <<>>
        mcpLine ==
            IF Truthy(mcpServers) /\ Len(mcpServers.v) > 0
            THEN << <<"You have access to these MCP servers:", SP>>
                    \o Join(mcpServers.v, <<",", SP>>)
                    \o <<". Use them when they can provide better context or direct actions.">> >>
            ELSE <<>>
        With(additions) ==
            IF Len(additions) = 0 THEN prompt
            ELSE trim(prompt \o <<NL, NL>> \o Join(additions, <<NL>>))
    IN  With(toolLine \o mcpLine)

DefaultQuery ==
    <<"Use the provided inputs to accomplish the requested task with precision.">>

\* buildAgentDefinition(config, source)
buildAgentDefinition(config, source) ==
    [name |-> config.name,
     displayName |-> config.name,
     description |->
         IF Truthy(config.summary) THEN config.summary.v
         ELSE IF Truthy(config.role) THEN config.role.v
         ELSE <<"Custom agent defined in", SP>> \o source,
     promptConfig |->
         [systemPrompt |-> appendToolingContext(buildSystemPrompt(config),
                                                config.tools, config.mcpServers),
          query |-> IF IsNullish(config.query) THEN DefaultQuery ELSE config.query.v],
     modelConfig |-> buildModelConfig(config.model),
     runConfig |-> buildRunConfig(config.runConfig),
     toolConfig |-> buildToolConfig(config.tools),
     outputConfig |-> buildOutputConfig(config.output),
     inputConfig |-> [inputs |-> buildInputConfig(config.inputs)],
     \* whether processOutput is a function (TRUE) or undefined (FALSE)
     processOutput |-> ~IsNullish(config.output) /\ config.output.v.type = "json"]

\* parseAgentMarkdown(markdown, source) in a module whose
\* SECTION_HEADING_REGEX has the given lastIndex: Ok(definition) or the error
\* thrown, and the lastIndex the call leaves.
parseAgentMarkdownWith(markdown, source, regexLastIndex) ==
    LET Build(config) ==
            IF ~config.ok THEN config
            ELSE Ok(buildAgentDefinition(config.val, source))
        Config(name, sections) ==
            IF name.ok THEN buildConfigFromSections(name.val, sections)
            ELSE name
        Parsed(extracted) ==
            [result |-> Build(Config(extractAgentName(markdown), extracted.sections)),
             lastIndex |-> extracted.lastIndex]
    IN  Parsed(extractSectionsWith(markdown, regexLastIndex))

\* parseAgentMarkdown(markdown, source) in a module that has just been
\* loaded: Ok(definition), or the error thrown.
parseAgentMarkdown(markdown, source) ==
    parseAgentMarkdownWith(markdown, source, 0).result


-----------------------------------------------------------------------------
(* loadAgentsFromDirectory                                                 *)

AGENT_SUFFIX == <<".agent", ".md">>

\* String.prototype.endsWith
endsWith(s, suffix) ==
    /\ Len(s) >= Len(suffix)
    /\ SubSeq(s, Len(s) - Len(suffix) + 1, Len(s)) = suffix

\* The name test alone, without entry.isFile().
IsCandidateAnyKind(entry) == endsWith(toLowerCase(entry.name), AGENT_SUFFIX)

\* The two tests at the top of the loop body: the entry is read and parsed
\* only when both pass.
IsCandidate(entry) ==
    /\ entry.isFile
    /\ endsWith(toLowerCase(entry.name), AGENT_SUFFIX)

Directory == <<"agents">>
\* path.join(directory, entry.name)
fullPath(entry) == Directory \o <<"/">> \o entry.name

\* The body of the inner try for one candidate: fs.readFile, then
\* parseAgentMarkdown(content, fullPath).
LoadEntryWith(entry, regexLastIndex) ==
    IF ~entry.readable
    THEN [result |-> Throw("EACCES", <<>>), lastIndex |-> regexLastIndex]
    ELSE parseAgentMarkdownWith(entry.content, fullPath(entry), regexLastIndex)

\* The same for an entry of any directory.
LoadFileWith(directory, entry, regexLastIndex) ==
    IF ~entry.readable
    THEN [result |-> Throw("EACCES", <<>>), lastIndex |-> regexLastIndex]
    ELSE parseAgentMarkdownWith(entry.content, directory \o <<"/">> \o entry.name,
                                regexLastIndex)

\* The same in a module that has just been loaded.
LoadEntry(entry) == LoadEntryWith(entry, 0).result

-----------------------------------------------------------------------------
(* Bounds and inputs                                                       *)

\* The longest text, in chunks, and the longest directory listing.
MaxChunks == 3
MaxEntries == 3
\* The most structured sections appended to a text that has its name heading.
MaxSections == 2

Heading(title) == <<"#", "#", SP>> \o title
Block(label, text) == <<FENCE, label, NL, text, NL, FENCE>>

HBob   == <<"#", SP, "Agent:", SP, "Bob">>
HEve   == <<"#", SP, "agent:", SP, SP, "Eve", SP>>
HBare  == <<"#", SP, "Agent:">>
HBlank == <<"#", SP, "Agent:", SP>>

\* The loadAgentsFromDirectory calls that can be in progress together.
MaxCalls == 2
CallIds == 1..MaxCalls
\* A call that has not been made.
NoCall == [pc |-> "idle", dir |-> <<>>, listing |-> <<>>, idx |-> 0, definitions |-> <<>>]

\* The generate-agent command before it is invoked, and a disk without the
\* destination directory.
NoCommand ==
    [pc |-> "idle", name |-> <<>>, prompt |-> <<>>, overwrite |-> FALSE,
     directory |-> <<>>, outputPath |-> <<>>, existed |-> FALSE,
     rawMarkdown |-> <<>>, error |-> "none"]
\* dirs: the directories that exist; files: the content of every file that
\* exists, by path; ops: the mkdir and writeFile calls the command has made.
EmptyDisk == [dirs |-> {}, files |-> <<>>, ops |-> <<>>]

NoResult == [ok |-> FALSE, val |-> UNDEF, err |-> [kind |-> "not called", key |-> <<>>]]
DefaultSource == <<"agent markdown">>

-----------------------------------------------------------------------------
(* The state machine                                                       *)

InitWith(text) ==
    /\ doc = text
    /\ written = 0
    /\ phase = "edit"
    /\ result = NoResult
    /\ dirState = "unread"
    /\ dirEntries = <<>>
    /\ idx = 0
    /\ definitions = <<>>
    /\ warnings = <<>>
    /\ pc = "idle"
    /\ lastIndex = 0
    /\ calls = [c \in CallIds |-> NoCall]
    /\ gen = NoCommand
    /\ disk = EmptyDisk
    /\ modelCalls = 0

Init == InitWith(<<>>)

loaderVars == <<dirState, dirEntries, idx, definitions, warnings, pc>>
docVars == <<doc, written, phase, result>>
callVars == <<lastIndex, calls>>
genVars == <<gen, disk, modelCalls>>

\* The author appends a chunk (one or more lines) to the text.
WriteChunk(chunk) ==
    /\ phase = "edit"
    /\ written < MaxChunks
    /\ doc' = IF doc = <<>> THEN chunk ELSE doc \o <<NL>> \o chunk
    /\ written' = written + 1
    /\ UNCHANGED <<phase, result, loaderVars, callVars, genVars>>

\* A call of parseAgentMarkdown(doc) with the default source.
ParseDocument ==
    /\ phase = "edit"
    /\ LET Return(parsed) ==
               /\ result' = parsed.result
               /\ lastIndex' = parsed.lastIndex
       IN  Return(parseAgentMarkdownWith(doc, DefaultSource, lastIndex))
    /\ phase' = "parsed"
    /\ UNCHANGED <<doc, written, loaderVars, calls, genVars>>

\* An entry appears in the directory before it is loaded; names are unique.
CreateEntry(entry) ==
    /\ pc = "idle"
    /\ Len(dirEntries) < MaxEntries
    /\ \A i \in 1..Len(dirEntries) : dirEntries[i].name /= entry.name
    /\ dirEntries' = Append(dirEntries, entry)
    /\ UNCHANGED <<docVars, callVars, genVars, dirState, idx, definitions, warnings, pc>>

\* The listing arrives or readdir rejects, and every rejection is logged.
ReadDirWarnAlways(outcome) ==
    /\ pc = "idle"
    /\ outcome = "ENOENT" => dirEntries = <<>>
    /\ dirState' = outcome
    /\ idx' = 1
    /\ definitions' = <<>>
    /\ pc' = IF outcome = "ok" THEN "loop" ELSE "done"
    /\ warnings' = IF outcome = "ok" THEN warnings
                   ELSE Append(warnings, [path |-> Directory, what |-> "directory"])
    /\ UNCHANGED <<docVars, callVars, genVars, dirEntries>>

\* loadAgentsFromDirectory up to the end of `await fs.readdir`: the listing
\* arrives, or readdir rejects (ENOENT, or another error that is logged).
ReadDir(outcome) ==
    /\ pc = "idle"
    /\ outcome = "ENOENT" => dirEntries = <<>>
    /\ dirState' = outcome
    /\ idx' = 1
    /\ definitions' = <<>>
    /\ pc' = IF outcome = "ok" THEN "loop" ELSE "done"
    /\ warnings' = IF outcome \in {"ok", "ENOENT"} THEN warnings
                   ELSE Append(warnings, [path |-> Directory, what |-> "directory"])
    /\ UNCHANGED <<docVars, callVars, genVars, dirEntries>>

\* One iteration of the for loop, with a failing file ending the loop.
ProcessEntryAborting ==
    /\ pc = "loop"
    /\ idx <= Len(dirEntries)
    /\ LET Step(entry, loaded) ==
               /\ definitions' = IF IsCandidate(entry) /\ loaded.ok
                                 THEN Append(definitions, loaded.val) ELSE definitions
               /\ warnings' = IF IsCandidate(entry) /\ ~loaded.ok
                              THEN Append(warnings,
                                          [path |-> fullPath(entry), what |-> "file"])
                              ELSE warnings
               /\ pc' = IF IsCandidate(entry) /\ ~loaded.ok THEN "done" ELSE pc
       IN  /\ Step(dirEntries[idx], LoadEntryWith(dirEntries[idx], lastIndex).result)
           /\ lastIndex' = IF IsCandidate(dirEntries[idx])
                            THEN LoadEntryWith(dirEntries[idx], lastIndex).lastIndex
                            ELSE lastIndex
    /\ idx' = idx + 1
    /\ UNCHANGED <<docVars, calls, genVars, dirState, dirEntries>>

\* One iteration of the for loop.
ProcessEntry ==
    /\ pc = "loop"
    /\ idx <= Len(dirEntries)
    /\ LET Step(entry, loaded) ==
               /\ definitions' = IF IsCandidate(entry) /\ loaded.ok
                                 THEN Append(definitions, loaded.val) ELSE definitions
               /\ warnings' = IF IsCandidate(entry) /\ ~loaded.ok
                              THEN Append(warnings,
                                          [path |-> fullPath(entry), what |-> "file"])
                              ELSE warnings
       IN  /\ Step(dirEntries[idx], LoadEntryWith(dirEntries[idx], lastIndex).result)
           /\ lastIndex' = IF IsCandidate(dirEntries[idx])
                            THEN LoadEntryWith(dirEntries[idx], lastIndex).lastIndex
                            ELSE lastIndex
    /\ idx' = idx + 1
    /\ UNCHANGED <<docVars, calls, genVars, dirState, dirEntries, pc>>

\* The return taken one entry early.
ReturnDefinitionsEarly ==
    /\ pc = "loop"
    /\ idx >= Len(dirEntries)
    /\ pc' = "done"
    /\ UNCHANGED <<docVars, callVars, genVars, dirState, dirEntries, idx, definitions, warnings>>

\* The loop is over: return definitions.
ReturnDefinitions ==
    /\ pc = "loop"
    /\ idx > Len(dirEntries)
    /\ pc' = "done"
    /\ UNCHANGED <<docVars, callVars, genVars, dirState, dirEntries, idx, definitions, warnings>>

\* Texts about the name heading.
HeaderChunks ==
    { HBob, HEve, HBare, HBlank,
      <<"#">>,
      <<"Agent:", SP, "Bob">>,
      Heading(<<"Summary">>) \o <<NL, "maps", SP, "code">>,
      Heading(<<"Run", SP, "Config">>) \o <<NL>> \o Block("json", "{\"max_turns\":3}"),
      Heading(<<"Inputs">>) \o <<NL, "todo">> }

Next ==
    \/ \E chunk \in HeaderChunks : WriteChunk(chunk)
    \/ ParseDocument

Spec == Init /\ [][Next]_vars


-----------------------------------------------------------------------------
(* Claims about the name heading (checked under Spec)                      *)

\* Where a header starts: a "#" at the start of a line that is followed,
\* after optional white space, by "Agent:" in any letter case.
HeaderMarks(md) ==
    {p \in 1..Len(md) :
        /\ AtLineStart(md, p)
        /\ md[p] = "#"
        /\ SkipWs(md, p + 1) <= Len(md)
        /\ Lower(md[SkipWs(md, p + 1)]) = "agent:"}

\* X of the header at p: the rest of the line after "Agent:", trimmed.
HeaderText(md, p) ==
    LET a == SkipWs(md, p + 1)
    IN  trim(SubSeq(md, a + 1, LineEnd(md, a + 1) - 1))

FirstHeaderText(md) == HeaderText(md, SetMin(HeaderMarks(md)))

SectionErrorKinds == {"ExpectedJsonBlock", "InvalidJson", "TypeError"}

\* C1 as stated: a text whose first header is "# Agent: X" with X not blank
\* always yields a definition named X trimmed, and a text without a header
\* always fails.
C1_NameAlwaysReturned ==
    phase = "parsed" =>
        IF HeaderMarks(doc) = {} THEN ~result.ok
        ELSE FirstHeaderText(doc) /= <<>> =>
                /\ result.ok
                /\ result.val.name = FirstHeaderText(doc)
                /\ result.val.displayName = FirstHeaderText(doc)

\* C1 amended: with a first header "# Agent: X", X not blank, every
\* definition returned has name and displayName X trimmed, and the call can
\* fail only on a section; a text without a header always fails.
C1_NameIsHeaderText ==
    phase = "parsed" =>
        IF HeaderMarks(doc) = {} THEN ~result.ok
        ELSE FirstHeaderText(doc) /= <<>> =>
                IF result.ok
                THEN /\ result.val.name = FirstHeaderText(doc)
                     /\ result.val.displayName = FirstHeaderText(doc)
                ELSE result.err.kind \in SectionErrorKinds

\* C1 witness: the padded lower-case header "# agent:  Eve " was parsed, after
\* other chunks, into a definition named Eve.
C1_Witness ==
    /\ phase = "parsed"
    /\ written = MaxChunks
    /\ result.ok
    /\ result.val.name = <<"Eve">>

\* C2: every definition returned has a name that is not empty and not
\* blank; a text without a header fails with the missing-header error, and a
\* header followed by nothing but white space to the end of the text fails
\* (with the empty-name error when that white space holds a blank).
C2_NameNeverEmpty ==
    phase = "parsed" =>
        /\ result.ok => /\ result.val.name /= <<>>
                        /\ trim(result.val.name) = result.val.name
        /\ HeaderMarks(doc) = {} => ~result.ok /\ result.err.kind = "MissingHeader"
        /\ HeaderMarks(doc) /= {} =>
              LET a == SkipWs(doc, SetMin(HeaderMarks(doc)) + 1)
                  rest == SubSeq(doc, a + 1, Len(doc))
              IN  trim(rest) = <<>> =>
                     /\ ~result.ok
                     /\ (\E i \in 1..Len(rest) : rest[i] = SP)
                            => result.err.kind = "EmptyName"

\* C2 witness: a text whose only header has a blank name was rejected with
\* the empty-name error.
C2_Witness ==
    /\ phase = "parsed"
    /\ ~result.ok
    /\ result.err.kind = "EmptyName"
    /\ written >= 2

-----------------------------------------------------------------------------
(* Texts with any subset of the twelve sections (SpecSubsets)              *)

\* A well-formed instance of every section the loader reads, in the order
\* of the sample text.
WellFormedSections ==
    << [title |-> <<"Summary">>, body |-> <<"maps", SP, "code">>],
       [title |-> <<"Role">>, body |-> <<"a", SP, "helper">>],
       [title |-> <<"Persona">>, body |-> <<"calm">>],
       [title |-> <<"Guidelines">>, body |-> <<"-", SP, "be", SP, "kind">>],
       [title |-> <<"Inputs">>,
        body |-> Block("json", "[{\"name\":\"topic\",\"type\":\"string\"}]")],
       [title |-> <<"Output">>, body |-> Block("json", "{\"type\":\"json\"}")],
       [title |-> <<"Tools">>, body |-> Block("json", "[\"grep\",\"ls\"]")],
       [title |-> <<"MCP">>, body |-> Block("json", "[\"docs\"]")],
       [title |-> <<"Model">>,
        body |-> Block("json", "{\"model\":\"gemini-pro\",\"temperature\":1}")],
       [title |-> <<"Run", SP, "Config">>,
        body |-> Block("json", "{\"max_turns\":14,\"max_time_minutes\":7}")],
       [title |-> <<"Query">>, body |-> <<"find", SP, "it">>],
       [title |-> <<"System", SP, "Prompt">>, body |-> <<"Answer", SP, "briefly">>] >>

\* The text has a line "## <title>", in any letter case.
HasSection(md, title) ==
    \E p \in 1..Len(md) :
        /\ md[p] = "#"
        /\ AtLineStart(md, p)
        /\ p + 2 + Len(title) <= Len(md)
        /\ toLowerCase(SubSeq(md, p, p + 2 + Len(title))) = toLowerCase(Heading(title))
        /\ (p + 3 + Len(title) > Len(md) \/ md[p + 3 + Len(title)] = NL)

\* The author appends the k-th section; sections come in the order above,
\* each at most once.
WriteSection(k) ==
    /\ phase = "edit"
    /\ \A j \in k..Len(WellFormedSections) : ~HasSection(doc, WellFormedSections[j].title)
    /\ doc' = (IF doc = <<>> THEN <<>> ELSE doc \o <<NL>>)
               \o Heading(WellFormedSections[k].title) \o <<NL>>
               \o WellFormedSections[k].body
    /\ written' = written + 1
    /\ UNCHANGED <<phase, result, loaderVars, callVars, genVars>>

\* The author writes the name heading, once, as the first or the second
\* chunk of the text.
WriteHeader ==
    /\ phase = "edit"
    /\ written <= 1
    /\ HeaderMarks(doc) = {}
    /\ doc' = (IF doc = <<>> THEN <<>> ELSE doc \o <<NL>>) \o HBob
    /\ written' = written + 1
    /\ UNCHANGED <<phase, result, loaderVars, callVars, genVars>>

NextSubsets ==
    \/ \E k \in 1..Len(WellFormedSections) : WriteSection(k)
    \/ WriteHeader
    \/ ParseDocument

SpecSubsets == Init /\ [][NextSubsets]_vars

\* The lexeme occurs in the text.
Mentions(text, lexeme) == \E i \in 1..Len(text) : text[i] = lexeme

\* C3: a text whose sections are all well formed is parsed into a
\* definition exactly when it has the name heading, whichever sections are
\* absent, and every absent section leaves its default in the definition:
\* the objective input, the text output named result, no tool
\* configuration, the default model settings, the limits 5 and 10, the
\* default query, a description taken from the role or else from the
\* source, and a synthesized prompt without the sentences for persona,
\* guidelines, tools and MCP servers.
C3_AbsentSectionsDefault ==
    phase = "parsed" =>
        /\ result.ok <=> HeaderMarks(doc) /= {}
        /\ ~result.ok => result.err.kind = "MissingHeader"
        /\ result.ok =>
              /\ ~HasSection(doc, <<"Inputs">>) =>
                    result.val.inputConfig.inputs =
                        << [name |-> <<"objective">>,
                            description |->
                                <<"Detailed description of the task to accomplish.">>,
                            type |-> <<"string">>,
                            required |-> JBool(TRUE)] >>
              /\ ~HasSection(doc, <<"Output">>) =>
                    /\ result.val.outputConfig =
                           [outputName |-> <<"result">>,
                            description |-> <<"Final answer generated by the agent.">>,
                            schema |-> ZString]
                    /\ ~result.val.processOutput
              /\ ~HasSection(doc, <<"Tools">>) =>
                    /\ result.val.toolConfig = UNDEF
                    /\ ~Mentions(result.val.promptConfig.systemPrompt,
                                 "You can invoke the following tools when needed:")
              /\ ~HasSection(doc, <<"MCP">>) =>
                    ~Mentions(result.val.promptConfig.systemPrompt,
                              "You have access to these MCP servers:")
              /\ ~HasSection(doc, <<"Model">>) =>
                    result.val.modelConfig =
                        [model |-> DEFAULT_GEMINI_MODEL,
                         temp |-> DEFAULT_TEMPERATURE,
                         top_p |-> DEFAULT_TOP_P,
                         thinkingBudget |-> DEFAULT_THINKING_MODE]
              /\ ~HasSection(doc, <<"Run", SP, "Config">>) =>
                    result.val.runConfig =
                        [max_time_minutes |-> JNum(5), max_turns |-> JNum(10)]
              /\ ~HasSection(doc, <<"Query">>) =>
                    result.val.promptConfig.query =
                        <<"Use the provided inputs to accomplish the requested task with precision.">>
              /\ ~HasSection(doc, <<"Summary">>) =>
                    IF HasSection(doc, <<"Role">>)
                    THEN SubSeq(result.val.description, 1, 3) = <<"a", SP, "helper">>
                    ELSE result.val.description
                            = <<"Custom agent defined in", SP>> \o DefaultSource
              /\ ~HasSection(doc, <<"System", SP, "Prompt">>) =>
                    /\ result.val.promptConfig.systemPrompt[1] = "You are **"
                    /\ ~HasSection(doc, <<"Persona">>) =>
                          ~Mentions(result.val.promptConfig.systemPrompt, "Persona:")
                    /\ ~HasSection(doc, <<"Guidelines">>) =>
                          ~Mentions(result.val.promptConfig.systemPrompt,
                                    "Follow these guidelines:")
                    /\ ~HasSection(doc, <<"Role">>) /\ ~HasSection(doc, <<"Summary">>) =>
                          Mentions(result.val.promptConfig.systemPrompt,
                                   "**, a specialized assistant.")

\* C3 witness: a text with the name heading, some sections and neither
\* inputs nor run config nor query was parsed into a definition.
C3_Witness ==
    /\ phase = "parsed"
    /\ result.ok
    /\ HasSection(doc, <<"Summary">>)
    /\ HasSection(doc, <<"Tools">>)
    /\ ~HasSection(doc, <<"Inputs">>)
    /\ ~HasSection(doc, <<"Run", SP, "Config">>)
    /\ ~HasSection(doc, <<"Query">>)

-----------------------------------------------------------------------------
(* Structured sections with good and bad bodies (SpecSections)             *)

\* The six sections read by parseJsonSection, in the order
\* buildConfigFromSections reads them.
StructuredTitles ==
    << <<"Inputs">>, <<"Output">>, <<"Tools">>, <<"MCP">>, <<"Model">>,
       <<"Run", SP, "Config">> >>

EmptyBody     == <<>>
ProseBody     == <<"todo">>
UnlabeledBody == <<FENCE, NL, "[]", NL, FENCE>>
BadJsonBody   == Block("json", "{oops")
GoodBody      == Block("JSON", "[]")
\* Valid JSON of the wrong shape for inputs (an object, not an array).
ObjectBody    == Block("json", "{\"name\":\"topic\",\"type\":\"string\"}")

SectionBodies ==
    {EmptyBody, ProseBody, UnlabeledBody, BadJsonBody, GoodBody, ObjectBody}

InitSections == InitWith(HBob)

\* The author appends a structured section: its heading line and, unless
\* the body is empty, the body on the next line.
WriteStructured(title, body) ==
    /\ phase = "edit"
    /\ written < MaxSections
    /\ doc' = doc \o <<NL>> \o Heading(title)
               \o (IF body = <<>> THEN <<>> ELSE <<NL>> \o body)
    /\ written' = written + 1
    /\ UNCHANGED <<phase, result, loaderVars, callVars, genVars>>

NextSections ==
    \/ \E i \in 1..Len(StructuredTitles), body \in SectionBodies :
          WriteStructured(StructuredTitles[i], body)
    \/ ParseDocument

SpecSections == InitSections /\ [][NextSections]_vars

\* The body of the section with this title (of the last one when the
\* heading repeats), as extractSections captures it.
BodyOf(md, title) == extractSections(md)[toLowerCase(title)]

\* The structured sections of the map, by their place in StructuredTitles,
\* whose body is one of the given bodies.
SectionsWith(sections, bodies) ==
    {i \in 1..Len(StructuredTitles) :
        /\ toLowerCase(StructuredTitles[i]) \in DOMAIN sections
        /\ sections[toLowerCase(StructuredTitles[i])] \in bodies}

\* The error names the first of the bad sections, unless inputs of the wrong
\* shape (shape) fail before it.
NamesFirst(bad, shape) ==
    (shape = {} \/ SetMin(bad) = 1)
        => result.err.key = toLowerCase(StructuredTitles[SetMin(bad)])

EveryBodyRejected(bad, shape) ==
    bad /= {} => (~result.ok /\ NamesFirst(bad, shape))

NonEmptyBodyRejected(sections, bad, shape) ==
    /\ result.ok <=> (bad = {} /\ shape = {})
    /\ bad /= {} =>
          /\ NamesFirst(bad, shape)
          /\ (shape = {} \/ SetMin(bad) = 1) =>
                result.err.kind =
                    IF sections[toLowerCase(StructuredTitles[SetMin(bad)])] = BadJsonBody
                    THEN "InvalidJson" ELSE "ExpectedJsonBlock"
    /\ (shape /= {} /\ (bad = {} \/ SetMin(bad) > 1)) => result.err.kind = "TypeError"

\* The same, for the section map of a text.
RejectedIn(sections) ==
    NonEmptyBodyRejected(sections,
                         SectionsWith(sections, {ProseBody, UnlabeledBody, BadJsonBody}),
                         SectionsWith(sections, {ObjectBody}) \cap {1})

AllRejectedIn(sections) ==
    EveryBodyRejected(SectionsWith(sections,
                                   {EmptyBody, ProseBody, UnlabeledBody, BadJsonBody}),
                      SectionsWith(sections, {ObjectBody}) \cap {1})

\* C4 as stated: when a structured section is present and its body has no
\* fenced JSON block or a block that does not parse, an empty body
\* included, the parse fails with an error naming the section (the first
\* such section in reading order, when there are several and none before
\* it has JSON of the wrong shape).
C4_EveryBodyRejected ==
    phase = "parsed" => AllRejectedIn(extractSections(doc))

\* C4 amended: the parse fails exactly when some structured section has a
\* body that is not empty and has no fenced JSON block or a block that does
\* not parse (or the inputs are of the wrong shape); the error then names
\* the first such section in reading order, as a missing block or as
\* invalid JSON, unless inputs of the wrong shape fail before it.  A
\* heading with an empty body is read as an absent section.
C4_NonEmptyBodyRejected ==
    phase = "parsed" => RejectedIn(extractSections(doc))

\* C4 witness: a text whose Inputs heading has an empty body and whose
\* Tools block is not JSON was rejected with an error naming tools.
C4_Witness ==
    /\ phase = "parsed"
    /\ HasSection(doc, <<"Inputs">>)
    /\ BodyOf(doc, <<"Inputs">>) = EmptyBody
    /\ HasSection(doc, <<"Tools">>)
    /\ BodyOf(doc, <<"Tools">>) = BadJsonBody
    /\ ~result.ok
    /\ result.err = [kind |-> "InvalidJson", key |-> <<"tools">>]

-----------------------------------------------------------------------------
(* Structured sections with several fenced blocks (SpecBlocks)             *)

ToolsBlock == Block("json", "[\"grep\",\"ls\"]")
DocsBlock  == Block("json", "[\"docs\"]")

\* Bodies with one or two labelled blocks, and with an unlabelled fence
\* before the labelled block.
BlockBodies ==
    { ToolsBlock,
      BadJsonBody,
      ToolsBlock \o <<NL>> \o DocsBlock,
      DocsBlock \o <<NL>> \o ToolsBlock,
      ToolsBlock \o <<NL>> \o BadJsonBody,
      BadJsonBody \o <<NL>> \o ToolsBlock,
      UnlabeledBody \o <<NL>> \o DocsBlock }

NextBlocks ==
    \/ \E i \in 1..Len(StructuredTitles), body \in BlockBodies :
          WriteStructured(StructuredTitles[i], body)
    \/ ParseDocument

SpecBlocks == InitSections /\ [][NextBlocks]_vars

\* Where the fenced blocks labelled json open in a section body.
LabelledFences(body) ==
    {p \in 1..(Len(body) - 1) : body[p] = FENCE /\ Lower(body[p + 1]) = "json"}

\* The text inside the first fenced block labelled json.
FirstBlockText(body) == body[SetMin(LabelledFences(body)) + 3]

\* The first MCP server the prompt names.
FirstServer(prompt) ==
    prompt[2 + CHOOSE i \in 1..Len(prompt) :
                   prompt[i] = "You have access to these MCP servers:"]

\* Every structured section of the map holds exactly one labelled block.
OneBlockEach(sections) ==
    \A i \in 1..Len(StructuredTitles) :
        toLowerCase(StructuredTitles[i]) \in DOMAIN sections =>
            Cardinality(LabelledFences(sections[toLowerCase(StructuredTitles[i])])) = 1

\* The first labelled block of every structured section decides.
FirstBlockDecides(sections) ==
    /\ result.ok <=>
          \A i \in 1..Len(StructuredTitles) :
              toLowerCase(StructuredTitles[i]) \in DOMAIN sections =>
                  FirstBlockText(sections[toLowerCase(StructuredTitles[i])]) /= "{oops"
    /\ (result.ok /\ <<"tools">> \in DOMAIN sections) =>
          result.val.toolConfig =
              IF FirstBlockText(sections[<<"tools">>]) = "[\"docs\"]"
              THEN JObj([tools |-> << <<"docs">> >>])
              ELSE JObj([tools |-> << <<"grep">>, <<"ls">> >>])
    /\ (result.ok /\ <<"mcp">> \in DOMAIN sections) =>
          FirstServer(result.val.promptConfig.systemPrompt) =
              IF FirstBlockText(sections[<<"mcp">>]) = "[\"docs\"]"
              THEN "docs" ELSE "grep"

-----------------------------------------------------------------------------
(* Run Config sections (SpecRunConfig)                                     *)

RunConfigTexts ==
    { "{\"max_turns\":14,\"max_time_minutes\":7}",
      "{\"max_turns\":3}",
      "{\"max_time_minutes\":7}",
      "{\"max_turns\":0,\"max_time_minutes\":-2}",
      "{\"max_turns\":-1}",
      "{\"max_turns\":\"5\",\"max_time_minutes\":null}",
      "{\"max_turns\":1e999,\"max_time_minutes\":1e999}",
      "{}", "[]", "null", "14", "{oops" }

RunConfigTitles == { <<"Run", SP, "Config">>, <<"run", SP, "config">> }

NextRunConfig ==
    \/ \E title \in RunConfigTitles, text \in RunConfigTexts :
          WriteStructured(title, Block("json", text))
    \/ ParseDocument

SpecRunConfig == InitSections /\ [][NextRunConfig]_vars

\* The JSON text the section is read from ("" when the section is absent).
TextOf(sections, key) ==
    IF key \in DOMAIN sections THEN FirstBlockText(sections[key]) ELSE ""

\* max_turns as the JSON text declares it, when that is a finite number
\* above zero, and the default 10 otherwise.
ExpectedTurns(text) ==
    CASE text = "{\"max_turns\":14,\"max_time_minutes\":7}" -> 14
      [] text = "{\"max_turns\":3}" -> 3
      [] OTHER -> 10

\* max_time_minutes likewise, with the default 5.
ExpectedMinutes(text) ==
    CASE text = "{\"max_turns\":14,\"max_time_minutes\":7}" -> 7
      [] text = "{\"max_time_minutes\":7}" -> 7
      [] OTHER -> 5

LimitsOf(runConfig, text) ==
    /\ runConfig.max_turns.k = "num"
    /\ runConfig.max_turns.v > 0
    /\ runConfig.max_time_minutes.k = "num"
    /\ runConfig.max_time_minutes.v > 0
    /\ runConfig.max_turns.v = ExpectedTurns(text)
    /\ runConfig.max_time_minutes.v = ExpectedMinutes(text)

\* C6: in every definition returned, max_turns and max_time_minutes are
\* finite numbers above zero: the declared value when it is such a number,
\* else (no section, no field, not a number, zero, negative, not finite)
\* the default, 10 turns and 5 minutes.
C6_LimitsPositive ==
    (phase = "parsed" /\ result.ok) =>
        LimitsOf(result.val.runConfig, TextOf(extractSections(doc), <<"run", SP, "config">>))

\* C6 witness: a Run Config declaring zero turns and a negative time was
\* parsed into a definition with the defaults.
C6_Witness ==
    /\ phase = "parsed"
    /\ result.ok
    /\ TextOf(extractSections(doc), <<"run", SP, "config">>)
           = "{\"max_turns\":0,\"max_time_minutes\":-2}"
    /\ result.val.runConfig = [max_turns |-> JNum(10), max_time_minutes |-> JNum(5)]

-----------------------------------------------------------------------------
(* Inputs sections (SpecInputs)                                            *)

TopicText    == "[{\"name\":\"topic\",\"type\":\"string\"}]"
HintsText    == "[{\"name\":\" hints \",\"type\":\"String\",\"required\":false}]"
CountText    == "[{\"name\":\"n\",\"type\":\"integer\",\"required\":true},{\"name\":\"topic\",\"type\":\"string\"}]"
DateTopicText == "[{\"name\":\"bad\",\"type\":\"date\"},{\"name\":\"topic\",\"type\":\"string\"}]"
DateText     == "[{\"name\":\"bad\",\"type\":\"date\"}]"
NamelessText == "[{\"name\":\"\",\"type\":\"string\"},{\"type\":\"number\"}]"
NumberTypeText == "[{\"name\":\"a\",\"type\":5},{\"name\":\"topic\",\"type\":\"string\"}]"
NullElementText == "[null]"

InputTexts ==
    { TopicText, HintsText, CountText, DateTopicText, DateText, NamelessText,
      NumberTypeText, NullElementText, "[]", "null" }

InputTitles == { <<"Inputs">>, <<"INPUTS">> }

NextInputs ==
    \/ \E title \in InputTitles, text \in InputTexts :
          WriteStructured(title, Block("json", text))
    \/ ParseDocument

SpecInputs == InitSections /\ [][NextInputs]_vars

\* An entry of inputConfig.inputs without its description.
InputEntry(name, type, required) ==
    [name |-> <<name>>, type |-> <<type>>, required |-> JBool(required)]

Undescribed(inputs) ==
    [i \in 1..Len(inputs) |->
        [name |-> inputs[i].name, type |-> inputs[i].type, required |-> inputs[i].required]]

\* What is left of the declared inputs where every element with an empty or
\* missing name or with a type outside the six allowed ones is dropped and
\* the others are kept in order (names trimmed, types in lower case and
\* mapped, required true unless declared): the objective input when
\* nothing is left.
ExpectedInputs(text) ==
    CASE text = TopicText     -> << InputEntry("topic", "string", TRUE) >>
      [] text = HintsText     -> << InputEntry("hints", "string", FALSE) >>
      [] text = CountText     -> << InputEntry("n", "number", TRUE),
                                    InputEntry("topic", "string", TRUE) >>
      [] text = DateTopicText -> << InputEntry("topic", "string", TRUE) >>
      [] text = NumberTypeText -> << InputEntry("topic", "string", TRUE) >>
      [] OTHER                -> << InputEntry("objective", "string", TRUE) >>

C8_ElementsDroppedNotFatal ==
    (phase = "parsed" /\ <<"inputs">> \in DOMAIN extractSections(doc)) =>
        /\ result.ok
        /\ Undescribed(result.val.inputConfig.inputs)
               = ExpectedInputs(TextOf(extractSections(doc), <<"inputs">>))

-----------------------------------------------------------------------------
(* Directories of agent files (SpecLoader)                                 *)

ValidText    == HBob
ValidEveText == HEve
NoHeaderText == <<"not", SP, "an", SP, "agent", SP, "spec">>
BadJsonText  == HBob \o <<NL>> \o Heading(<<"Inputs">>) \o <<NL>> \o BadJsonBody

\* A regular file that can be read.
FileEntry(name, content) ==
    [name |-> name, isFile |-> TRUE, readable |-> TRUE, content |-> content]

LoaderEntries ==
    { FileEntry(<<"x", ".agent", ".md">>, ValidText),
      FileEntry(<<"x", ".agent", ".md">>, NoHeaderText),
      FileEntry(<<"x", ".agent", ".md">>, BadJsonText),
      \* a file that fs.readFile cannot read
      [name |-> <<"x", ".agent", ".md">>, isFile |-> TRUE, readable |-> FALSE,
       content |-> ValidText],
      FileEntry(<<"y", ".agent", ".md">>, ValidEveText),
      FileEntry(<<"y", ".agent", ".md">>, BadJsonText),
      FileEntry(<<"Z", ".AGENT", ".MD">>, ValidText),
      FileEntry(<<"Z", ".AGENT", ".MD">>, NoHeaderText),
      FileEntry(<<"notes", ".txt">>, NoHeaderText),
      FileEntry(<<"notes", ".txt">>, ValidText),
      FileEntry(<<"x", ".agent", ".md", ".bak">>, ValidText),
      FileEntry(<<"agent", ".md">>, ValidText),
      \* a sub-directory
      [name |-> <<"d", ".agent", ".md">>, isFile |-> FALSE, readable |-> FALSE,
       content |-> <<>>] }

\* How fs.readdir can end: with the listing, or rejecting because the
\* directory does not exist, may not be read, or is not a directory.
ReadDirOutcomes == {"ok", "ENOENT", "EACCES", "ENOTDIR"}

NextLoader ==
    \/ \E entry \in LoaderEntries : CreateEntry(entry)
    \/ \E outcome \in ReadDirOutcomes : ReadDir(outcome)
    \/ ProcessEntry
    \/ ReturnDefinitions

SpecLoader == Init /\ [][NextLoader]_vars

\* A candidate file: a regular file with the suffix .agent.md in any letter
\* case.
CandidateFile(entry) ==
    /\ entry.isFile
    /\ Len(entry.name) >= 2
    /\ Lower(entry.name[Len(entry.name) - 1]) = ".agent"
    /\ Lower(entry.name[Len(entry.name)]) = ".md"

\* A candidate file that parses, and one that fails to load.
GoodFile(entry) ==
    CandidateFile(entry) /\ entry.readable /\ entry.content \in {ValidText, ValidEveText}
FailingFile(entry) == CandidateFile(entry) /\ ~GoodFile(entry)

\* The paths of the files a returned list of definitions comes from: every
\* valid text here has no summary and no role, so its description ends in
\* the path it was loaded from.
SourcesOf(defs) ==
    [i \in 1..Len(defs) |-> SubSeq(defs[i].description, 3, Len(defs[i].description))]
PathsOf(entries) == [i \in 1..Len(entries) |-> fullPath(entries[i])]
LoggedPaths(logged) == [i \in 1..Len(logged) |-> logged[i].path]

\* C9: when the listing has been read, the call ends having returned the
\* definitions of exactly the candidate files that parse, in listing order,
\* and having logged exactly one warning for each candidate file that fails,
\* naming its path, whatever the order of the files; a failing file never
\* ends the loop early.
C9_BatchSurvivesFailures ==
    /\ (pc = "done" /\ dirState = "ok") =>
          /\ SourcesOf(definitions) = PathsOf(SelectSeq(dirEntries, GoodFile))
          /\ LoggedPaths(warnings) = PathsOf(SelectSeq(dirEntries, FailingFile))
          /\ \A i \in 1..Len(warnings) : warnings[i].what = "file"
    /\ (pc = "done" /\ dirState = "ok") => idx = Len(dirEntries) + 1

\* C9 witness: a listing with a valid file between two failing ones was
\* loaded: one definition, two warnings.
C9_Witness ==
    /\ pc = "done"
    /\ dirState = "ok"
    /\ Len(dirEntries) = 3
    /\ FailingFile(dirEntries[1])
    /\ GoodFile(dirEntries[2])
    /\ FailingFile(dirEntries[3])
    /\ Len(definitions) = 1
    /\ Len(warnings) = 2

\* A regular file whose name ends in .agent.md as written.
ExactSuffixFile(entry) ==
    /\ entry.isFile
    /\ Len(entry.name) >= 2
    /\ SubSeq(entry.name, Len(entry.name) - 1, Len(entry.name)) = <<".agent", ".md">>

\* The entry gave a definition or a warning.
Loaded(entry) ==
    \/ \E i \in 1..Len(definitions) : SourcesOf(definitions)[i] = fullPath(entry)
    \/ \E i \in 1..Len(warnings) : warnings[i].path = fullPath(entry)

\* The listing holds a valid x.agent.md and entries that are not candidates.
OneAgentAmongOthers ==
    /\ \E i \in 1..Len(dirEntries) :
          dirEntries[i] = FileEntry(<<"x", ".agent", ".md">>, ValidText)
    /\ \E i \in 1..Len(dirEntries) : dirEntries[i].name = <<"notes", ".txt">>
    /\ \A i \in 1..Len(dirEntries) :
          \/ dirEntries[i].name = <<"x", ".agent", ".md">>
          \/ dirEntries[i].name = <<"notes", ".txt">>
          \/ ~dirEntries[i].isFile

\* C10 as stated: an entry gives a definition or a warning only if it is a
\* regular file whose name ends in .agent.md as written.
C10_ExactSuffixOnly ==
    (pc = "done" /\ dirState = "ok") =>
        \A i \in 1..Len(dirEntries) :
            Loaded(dirEntries[i]) => ExactSuffixFile(dirEntries[i])

\* C10: an entry gives a definition or a warning only if it is a regular
\* file whose name, lower-cased, ends in .agent.md; every other entry
\* (other file names, sub-directories) gives neither, and a listing of one
\* valid x.agent.md beside notes.txt gives exactly one definition.
C10_SuffixAnyCaseOnly ==
    (pc = "done" /\ dirState = "ok") =>
        /\ \A i \in 1..Len(dirEntries) :
              Loaded(dirEntries[i]) => CandidateFile(dirEntries[i])
        /\ OneAgentAmongOthers => Len(definitions) = 1 /\ warnings = <<>>

\* C10 witness: x.agent.md, notes.txt and a sub-directory named like an
\* agent file were listed; one definition came back and nothing was logged.
C10_Witness ==
    /\ pc = "done"
    /\ dirState = "ok"
    /\ Len(dirEntries) = 3
    /\ OneAgentAmongOthers
    /\ \E i \in 1..3 : ~dirEntries[i].isFile
    /\ Len(definitions) = 1
    /\ SourcesOf(definitions)[1] = Directory \o <<"/", "x", ".agent", ".md">>
    /\ warnings = <<>>

\* C11: when readdir rejects, the call ends at once with the empty list,
\* whatever the directory holds: without a warning when the directory does
\* not exist, and with exactly one warning, about the directory, for any
\* other rejection.
C11_UnreadableDirectoryIsEmpty ==
    /\ (dirState \in ReadDirOutcomes \ {"ok"}) =>
          /\ pc = "done"
          /\ definitions = <<>>
          /\ dirState = "ENOENT" => warnings = <<>>
          /\ dirState /= "ENOENT" =>
                warnings = <<[path |-> Directory, what |-> "directory"]>>
    /\ pc = "done" => dirState \in ReadDirOutcomes

\* C11 witness: a directory holding a valid agent file could not be read;
\* the empty list came back with one warning.
C11_Witness ==
    /\ pc = "done"
    /\ dirState = "EACCES"
    /\ \E i \in 1..Len(dirEntries) : GoodFile(dirEntries[i])
    /\ definitions = <<>>
    /\ Len(warnings) = 1

-----------------------------------------------------------------------------
(* Output sections and their schemas (SpecSchema)                           *)

OutputTexts == OutputJsonTexts \cup {"{\"type\":\"json\"}"}

NextSchema ==
    \/ \E text \in OutputTexts : WriteStructured(<<"Output">>, Block("json", text))
    \/ ParseDocument

SpecSchema == InitSections /\ [][NextSchema]_vars

\* The JSON text of the Output block in force: the first block of the last
\* Output section.
OutputTextOf(sections) == TextOf(sections, <<"output">>)

\* A descriptor of a validator, every part of it compiled.
RECURSIVE IsValidator(_)
IsValidator(zod) ==
    CASE zod.z \in {"any", "string", "number", "integer", "boolean", "record"} -> TRUE
      [] zod.z = "array" -> IsValidator(zod.items)
      [] zod.z = "object" ->
            \A key \in DOMAIN zod.shape :
                /\ zod.shape[key].optional \in BOOLEAN
                /\ IsValidator(zod.shape[key].schema)
      [] OTHER -> FALSE

\* The Output texts declaring json whose schema is not an object, or has a
\* type that is missing, not a string or not a known one, or is nested too
\* deep to compile.
DegradedSchemaTexts ==
    { "{\"type\":\"json\"}",
      "{\"type\":\"json\",\"schema\":{\"type\":\"date\"}}",
      "{\"type\":\"json\",\"schema\":{\"type\":5}}",
      "{\"type\":\"json\",\"schema\":{}}",
      "{\"type\":\"json\",\"schema\":[]}",
      "{\"type\":\"json\",\"schema\":\"string\"}",
      "{\"type\":\"json\",\"schema\":null}",
      "{\"type\":\"json\",\"schema\":{\"type\":\"array\",\"items\":{\"type\":\"array\",\"items\":{\"type\":\"array\",\"items\":{\"type\":\"array\",\"items\":{\"type\":\"array\",\"items\":{\"type\":\"array\",\"items\":{\"type\":\"string\"}}}}}}}}" }

\* C12: whatever schema the Output block declares, the parse does not fail
\* because of it (the one failing Output text fails in parseOutput, on a type
\* that is not a string); every definition returned carries a compiled
\* validator as outputConfig.schema; and a schema that is not an object, has
\* no usable type, or exhausts the stack while compiling gives the
\* accept-anything validator.
C12_SchemaAlwaysCompiles ==
    phase = "parsed" =>
        LET Holds(text) ==
                /\ ~result.ok => text = "{\"type\":true}"
                /\ result.ok => IsValidator(result.val.outputConfig.schema)
                /\ (result.ok /\ text \in DegradedSchemaTexts) =>
                        result.val.outputConfig.schema = ZAny
        IN  Holds(OutputTextOf(extractSections(doc)))

\* C12 witness: a schema nested deeper than the stack allows was parsed, and
\* the definition came back with the accept-anything validator.
C12_Witness ==
    /\ phase = "parsed"
    /\ result.ok
    /\ JSONparse(<<OutputTextOf(extractSections(doc))>>) = Ok(JsonOutput(ArraySchema(6)))
    /\ result.val.outputConfig.schema = ZAny

\* Whether the validator built by jsonSchemaToZod accepts a value (UNDEF for
\* a key the value does not have): z.any() accepts everything, undefined
\* included; z.object(shape).passthrough() parses every key of the shape,
\* present or not, with its validator and keeps the other keys; .optional()
\* accepts undefined as well.
RECURSIVE Accepts(_, _)
Accepts(zod, value) ==
    LET Field(key) == IF key \in DOMAIN value.v THEN value.v[key] ELSE UNDEF
    IN  CASE zod.z = "any"     -> TRUE
          [] zod.z = "string"  -> value.k = "str"
          [] zod.z = "number"  -> value.k \in {"num", "inf"}
          [] zod.z = "integer" -> value.k = "num"
          [] zod.z = "boolean" -> value.k = "bool"
          [] zod.z = "record"  -> value.k = "obj"
          [] zod.z = "array"   ->
                /\ value.k = "arr"
                /\ \A i \in 1..Len(value.v) : Accepts(zod.items, value.v[i])
          [] zod.z = "object"  ->
                /\ value.k = "obj"
                /\ \A key \in DOMAIN zod.shape :
                      \/ zod.shape[key].optional /\ Field(key) = UNDEF
                      \/ Accepts(zod.shape[key].schema, Field(key))

\* Results an agent may hand to the validator.
SampleValues ==
    { JObj(<<>>),
      JObj([a |-> JStr(Q("x"))]),
      JObj([a |-> JStr(Q("x")), b |-> JNum(1)]),
      JObj([a |-> JNum(1)]),
      JObj([b |-> JNum(1)]),
      JObj([a |-> JStr(Q("x")), n |-> JNum(2)]),
      JObj([a |-> JStr(Q("x")), n |-> JStr(Q("y"))]),
      JObj([o |-> JObj([a |-> JStr(Q("x"))])]),
      JObj([o |-> JObj(<<>>)]),
      JArr(<<>>),
      JArr(<<JNum(1)>>),
      JArr(<<JStr(Q("x"))>>),
      JArr(<<JArr(<<JStr(Q("x"))>>)>>),
      JStr(Q("x")), JNum(1), JBool(TRUE), JNull }

\* The schema the Output text declares, when it declares json.
DeclaredSchema(text) == Prop(JSONparse(<<text>>).val, "schema")

\* The schema is an object node with properties.
HasProperties(schema) ==
    /\ Prop(schema, "type") = JStr(Q("object"))
    /\ Prop(schema, "properties").k = "obj"

\* What the node requires of an object value: each declared key listed in
\* required is present and valid, each other declared key is absent or
\* valid, and every other key is let through.
RequiredAndValid(schema, value) ==
    LET properties == Prop(schema, "properties").v
        required == Prop(schema, "required")
        Listed(key) == /\ required.k = "arr"
                       /\ \E i \in 1..Len(required.v) : required.v[i] = JStr(<<key>>)
        Valid(key) == Accepts(buildZodSchema(properties[key]), value.v[key])
    IN  \A key \in DOMAIN properties :
            IF Listed(key) THEN key \in DOMAIN value.v /\ Valid(key)
            ELSE key \notin DOMAIN value.v \/ Valid(key)

\* C13: for an Output schema that is an object node with properties, the
\* compiled validator accepts an object value exactly when every declared
\* key listed in required is present and valid against its property schema
\* and every other declared key is absent or valid; undeclared keys are let
\* through.
C13_RequiredKeysPresent ==
    (phase = "parsed" /\ result.ok) =>
        LET Holds(schema, zod) ==
                HasProperties(schema) =>
                    \A value \in SampleValues :
                        value.k = "obj" =>
                            (Accepts(zod, value) <=> RequiredAndValid(schema, value))
        IN  Holds(DeclaredSchema(OutputTextOf(extractSections(doc))),
                  result.val.outputConfig.schema)

-----------------------------------------------------------------------------
(* Prompt sections (SpecPrompt)                                             *)

RoleBody       == <<"a", SP, "travel", SP, "planner">>
SummaryBody    == <<"maps", SP, "code">>
PersonaBody    == <<"calm">>
BulletsBody    == <<"-", SP, "be", SP, "kind", NL, "-", SP, "be", SP, "brief">>
LinesBody      == <<"be", SP, "kind", NL, "be", SP, "brief">>
PlainPrompt    == <<"Answer", SP, "briefly">>
\* an explicit prompt with a fenced example inside it
FencedPrompt   == <<"Answer", SP>> \o Block("json", "{}") \o <<SP, "briefly">>
\* an explicit prompt that is a fenced block and nothing else
OnlyFencePrompt == Block("json", "{}")

\* The sections a prompt is made from, in the order the author writes them,
\* each with the bodies the author may give it.
PromptSections ==
    << [title |-> <<"Summary">>, bodies |-> {SummaryBody}],
       [title |-> <<"Role">>, bodies |-> {RoleBody}],
       [title |-> <<"Persona">>, bodies |-> {PersonaBody}],
       [title |-> <<"Guidelines">>, bodies |-> {BulletsBody, LinesBody}],
       [title |-> <<"Tools">>,
        bodies |-> {Block("json", "[\"grep\",\"ls\"]"), Block("json", "[]")}],
       [title |-> <<"MCP">>, bodies |-> {Block("json", "[\"docs\"]")}],
       [title |-> <<"System", SP, "Prompt">>,
        bodies |-> {PlainPrompt, FencedPrompt, OnlyFencePrompt, <<>>}] >>

\* The author appends the k-th of these sections; sections come in the
\* order above, each at most once.
WritePromptSection(k, body) ==
    /\ phase = "edit"
    /\ \A j \in k..Len(PromptSections) : ~HasSection(doc, PromptSections[j].title)
    /\ doc' = doc \o <<NL>> \o Heading(PromptSections[k].title)
               \o (IF body = <<>> THEN <<>> ELSE <<NL>> \o body)
    /\ written' = written + 1
    /\ UNCHANGED <<phase, result, loaderVars, callVars, genVars>>

NextPrompt ==
    \/ \E k \in 1..Len(PromptSections) :
          \E body \in PromptSections[k].bodies : WritePromptSection(k, body)
    \/ ParseDocument

SpecPrompt == InitSections /\ [][NextPrompt]_vars

ToolSentence == "You can invoke the following tools when needed:"
McpSentence  == "You have access to these MCP servers:"
ClosingSentence ==
    "Think step-by-step, justify your reasoning, and provide actionable, concrete outputs."

\* The final prompt without the tool and MCP sentences appended to it.
BasePrompt(prompt) ==
    LET Upto(cut) == IF cut = {} THEN prompt ELSE SubSeq(prompt, 1, SetMin(cut) - 3)
    IN  Upto({i \in 1..Len(prompt) : prompt[i] \in {ToolSentence, McpSentence}})

\* The first place at or after `from` where the piece occurs in the text; 0
\* when there is none or when an earlier piece was missing (from = 0).
PlaceOf(text, piece, from) ==
    LET At(places) == IF places = {} THEN 0 ELSE SetMin(places)
    IN  IF from = 0 THEN 0
        ELSE At({p \in from..(Len(text) - Len(piece) + 1) :
                    SubSeq(text, p, p + Len(piece) - 1) = piece})

\* The pieces occur in the text one after the other, in this order.
RECURSIVE InOrderFrom(_, _, _)
InOrderFrom(text, pieces, from) ==
    IF pieces = <<>> THEN from > 0
    ELSE LET Next1(place) ==
                 place > 0 /\ InOrderFrom(text, Tail(pieces), place + Len(pieces[1]))
         IN  Next1(PlaceOf(text, pieces[1], from))

\* What a synthesized prompt must hold for these sections: the name and the
\* role (else the summary, else the generic words), the persona, the
\* guidelines as bullets, the closing sentence.
SynthesizedPieces(sections) ==
    LET Has(key) == key \in DOMAIN sections
    IN  << <<"You are **", "Bob">> >>
        \o << IF Has(<<"role">>) THEN RoleBody \o <<".">>
              ELSE IF Has(<<"summary">>) THEN SummaryBody \o <<".">>
              ELSE <<"**, a specialized assistant.">> >>
        \o (IF Has(<<"persona">>) THEN << PersonaBody >> ELSE <<>>)
        \o (IF ~Has(<<"guidelines">>) THEN <<>>
            ELSE IF sections[<<"guidelines">>] = BulletsBody
            THEN << <<"-", SP, "be", SP, "kind", NL>>, <<"-", SP, "be", SP, "brief", NL>> >>
            ELSE << <<"-", SP, "be", SP, "kind", SP, "be", SP, "brief", NL>> >>)
        \o << <<ClosingSentence>> >>

IsSynthesized(base, sections) ==
    /\ InOrderFrom(base, SynthesizedPieces(sections), 1)
    /\ base[Len(base)] = ClosingSentence

\* C15 as stated: the base prompt is the body of the System Prompt section,
\* trimmed, whenever the section is there with a body, and is synthesized
\* otherwise.
C15_ExplicitPromptVerbatim ==
    (phase = "parsed" /\ result.ok) =>
        LET Holds(sections, base) ==
                IF /\ <<"system", SP, "prompt">> \in DOMAIN sections
                   /\ sections[<<"system", SP, "prompt">>] /= <<>>
                THEN base = trim(sections[<<"system", SP, "prompt">>])
                ELSE IsSynthesized(base, sections)
        IN  Holds(extractSections(doc), BasePrompt(result.val.promptConfig.systemPrompt))

\* The text of an explicit prompt once its fenced blocks are taken out and
\* the rest is trimmed.
UnfencedPrompt(body) ==
    CASE body = PlainPrompt  -> PlainPrompt
      [] body = FencedPrompt -> <<"Answer", SP, SP, "briefly">>
      [] OTHER               -> <<>>

\* C15: the base prompt is the System Prompt section's text with its fenced
\* blocks removed, trimmed, with nothing synthesized added, whenever that
\* text is not empty; otherwise it is synthesized and holds in this order
\* the opening sentence with the name and the role (the summary without a
\* role, generic words without both), the persona when there is one, every
\* guideline as a bullet in its order, and the closing sentence.
C15_UnfencedPromptVerbatim ==
    (phase = "parsed" /\ result.ok) =>
        LET Holds(sections, base) ==
                IF /\ <<"system", SP, "prompt">> \in DOMAIN sections
                   /\ UnfencedPrompt(sections[<<"system", SP, "prompt">>]) /= <<>>
                THEN base = UnfencedPrompt(sections[<<"system", SP, "prompt">>])
                ELSE IsSynthesized(base, sections)
        IN  Holds(extractSections(doc), BasePrompt(result.val.promptConfig.systemPrompt))

\* C15 witness: a text with a role, a persona and two guideline bullets but
\* no System Prompt was parsed; its prompt holds the name, the role, the
\* persona, both guidelines and the closing sentence, in this order.
C15_Witness ==
    /\ phase = "parsed"
    /\ result.ok
    /\ HasSection(doc, <<"Role">>)
    /\ HasSection(doc, <<"Persona">>)
    /\ HasSection(doc, <<"Guidelines">>)
    /\ BodyOf(doc, <<"Guidelines">>) = BulletsBody
    /\ ~HasSection(doc, <<"System", SP, "Prompt">>)
    /\ InOrderFrom(result.val.promptConfig.systemPrompt,
                   << <<"Bob">>, RoleBody, PersonaBody, <<"be", SP, "kind">>,
                      <<"be", SP, "brief">>, <<ClosingSentence>> >>, 1)

\* The base prompt these sections give: the explicit text, or a synthesized
\* one.
IsBasePrompt(base, sections) ==
    IF /\ <<"system", SP, "prompt">> \in DOMAIN sections
       /\ UnfencedPrompt(sections[<<"system", SP, "prompt">>]) /= <<>>
    THEN base = UnfencedPrompt(sections[<<"system", SP, "prompt">>])
    ELSE IsSynthesized(base, sections)

\* The sentences the Tools and MCP sections of the text call for: the tool
\* sentence when the Tools block lists tools, then the MCP sentence when the
\* MCP block lists servers.
ExpectedAdditions(sections) ==
    (IF /\ <<"tools">> \in DOMAIN sections
        /\ sections[<<"tools">>] = Block("json", "[\"grep\",\"ls\"]")
     THEN << <<ToolSentence, SP, "grep", ",", SP, "ls", ".">> >> ELSE <<>>)
    \o (IF <<"mcp">> \in DOMAIN sections
        THEN << <<McpSentence, SP, "docs",
                  ". Use them when they can provide better context or direct actions.">> >>
        ELSE <<>>)

\* C16: the final prompt is the base prompt, then (after a blank line) the
\* tool sentence when tools are listed and the MCP sentence when servers are
\* listed, in that order; with neither list it is the base prompt unchanged.
C16_ToolingAppended ==
    (phase = "parsed" /\ result.ok) =>
        LET Split(sections, final, tail) ==
                /\ Len(final) > Len(tail)
                /\ SubSeq(final, Len(final) - Len(tail) + 1, Len(final)) = tail
                /\ IsBasePrompt(SubSeq(final, 1, Len(final) - Len(tail)), sections)
                /\ \A i \in 1..(Len(final) - Len(tail)) :
                      final[i] \notin {ToolSentence, McpSentence}
            Holds(sections, additions) ==
                Split(sections, result.val.promptConfig.systemPrompt,
                      IF additions = <<>> THEN <<>>
                      ELSE <<NL, NL>> \o Join(additions, <<NL>>))
        IN  Holds(extractSections(doc), ExpectedAdditions(extractSections(doc)))

\* C16 witness: a text listing two tools and one MCP server was parsed; its
\* prompt ends with the tool sentence and then the MCP sentence.
C16_Witness ==
    /\ phase = "parsed"
    /\ result.ok
    /\ HasSection(doc, <<"Tools">>)
    /\ HasSection(doc, <<"MCP">>)
    /\ InOrderFrom(result.val.promptConfig.systemPrompt,
                   << <<ToolSentence, SP, "grep", ",", SP, "ls", ".", NL>>,
                      <<McpSentence, SP, "docs">> >>, 1)

\* The Output texts whose type is "json" in some letter case.
JsonTypeTexts ==
    {text \in OutputTexts :
        Prop(JsonValue(text), "type") \in {JStr(Q("json")), JStr(Q("JSON"))}}

\* What shows the declared output type in a definition: the post-processor,
\* and the description given to an output that has none of its own.
ShowsJson(definition) ==
    /\ definition.processOutput
    /\ definition.outputConfig.description
          \in {<<"Structured JSON output generated by the agent.">>, <<"a", SP, "report">>}
ShowsText(definition) ==
    /\ ~definition.processOutput
    /\ definition.outputConfig.schema = ZString
    /\ definition.outputConfig.description
          \in {<<"Textual result generated by the agent.">>,
               <<"Final answer generated by the agent.">>, <<"a", SP, "report">>}

\* C17: every text parses to a definition whose declared output type is
\* json when the Output block's type is "json" in some letter case, and text
\* in every other case, the absent Output section included; the definition
\* has a post-processor exactly when the type is json.
C17_TextInEveryOtherCase ==
    phase = "parsed" =>
        LET Holds(text) ==
                /\ result.ok
                /\ IF text \in JsonTypeTexts THEN ShowsJson(result.val)
                   ELSE ShowsText(result.val)
        IN  Holds(OutputTextOf(extractSections(doc)))

-----------------------------------------------------------------------------
(* Tools and MCP sections (SpecTools)                                       *)

ListTexts == ListJsonTexts \cup {"[\"grep\",\"ls\"]", "[\"docs\"]", "[]"}
ListTitles == { <<"Tools">>, <<"MCP">> }

NextTools ==
    \/ \E title \in ListTitles, text \in ListTexts :
          WriteStructured(title, Block("json", text))
    \/ ParseDocument

SpecTools == InitSections /\ [][NextTools]_vars

\* The list a Tools or MCP text declares: its elements as strings, trimmed,
\* without the empty ones (null among them) and without repeats, each value
\* where it first occurs; empty for a text that is not an array, and for no
\* section.
ExpectedList(text) ==
    CASE text = "[\"grep\",\"ls\"]" -> << <<"grep">>, <<"ls">> >>
      [] text = "[\"docs\"]" -> << <<"docs">> >>
      [] text = "[\" grep \",\"ls\",\"grep\"]" -> << <<"grep">>, <<"ls">> >>
      [] text = "[\"ls\",\"\",\"grep\",\"ls\",\" \"]" -> << <<"ls">>, <<"grep">> >>
      [] text = "[1,true,\"ls\"]" -> << <<"1">>, <<"true">>, <<"ls">> >>
      [] text = "[null,\"ls\"]" -> << <<"ls">> >>
      [] text = "[[\"a\",\"b\"],{}]"
            -> << <<"a", ",", "b">>, <<"[object", SP, "Object]">> >>
      [] OTHER -> <<>>

\* The part of the prompt from the given sentence up to the end of its line.
SentenceOf(prompt, sentence) ==
    LET From(starts) ==
            IF starts = {} THEN <<>>
            ELSE SubSeq(prompt, SetMin(starts), LineEnd(prompt, SetMin(starts)) - 1)
    IN  From({i \in 1..Len(prompt) : prompt[i] = sentence})

\* C18: the tool list is the declared elements as strings, trimmed, without
\* empty elements and without repeats, each value at its first occurrence,
\* and so is the MCP list; toolConfig holds the tool list and the prompt
\* names each list in its sentence; when nothing remains of a list, toolConfig
\* is absent and the prompt has no sentence for it.
C18_ListsSanitized ==
    phase = "parsed" =>
        LET Holds(prompt, tools, mcp) ==
                /\ result.val.toolConfig
                      = IF tools = <<>> THEN UNDEF ELSE JObj([tools |-> tools])
                /\ SentenceOf(prompt, ToolSentence)
                      = IF tools = <<>> THEN <<>>
                        ELSE <<ToolSentence, SP>> \o Join(tools, <<",", SP>>) \o <<".">>
                /\ SentenceOf(prompt, McpSentence)
                      = IF mcp = <<>> THEN <<>>
                        ELSE <<McpSentence, SP>> \o Join(mcp, <<",", SP>>)
                             \o <<". Use them when they can provide better context or direct actions.">>
            Of(sections) ==
                Holds(result.val.promptConfig.systemPrompt,
                      ExpectedList(TextOf(sections, <<"tools">>)),
                      ExpectedList(TextOf(sections, <<"mcp">>)))
        IN  result.ok /\ Of(extractSections(doc))

\* C18 witness: a Tools block with a padded name, a repeat and an empty
\* element was parsed, and an MCP block of which nothing remains.
C18_Witness ==
    /\ phase = "parsed"
    /\ result.ok
    /\ HasSection(doc, <<"Tools">>)
    /\ HasSection(doc, <<"MCP">>)
    /\ TextOf(extractSections(doc), <<"tools">>) = "[\"ls\",\"\",\"grep\",\"ls\",\" \"]"
    /\ TextOf(extractSections(doc), <<"mcp">>) = "[\"\",\" \",null]"
    /\ result.val.toolConfig = JObj([tools |-> << <<"ls">>, <<"grep">> >>])
    /\ SentenceOf(result.val.promptConfig.systemPrompt, McpSentence) = <<>>

-----------------------------------------------------------------------------
(* Model sections (SpecModel)                                               *)

ModelTexts ==
    ModelJsonTexts \cup {"{\"model\":\"gemini-pro\",\"temperature\":1}", "{}", "[]", "null"}

NextModel ==
    \/ \E text \in ModelTexts : WriteStructured(<<"Model">>, Block("json", text))
    \/ ParseDocument

SpecModel == InitSections /\ [][NextModel]_vars

\* The model a Model text declares, trimmed, when it declares one that is
\* not empty; the default model otherwise, and for no section.
ExpectedModel(text) ==
    CASE text = "{\"model\":\"gemini-pro\",\"temperature\":1}" -> <<"gemini-pro">>
      [] text = "{\"model\":\" gemini-pro \"}" -> <<"gemini-pro">>
      [] OTHER -> DEFAULT_GEMINI_MODEL

\* C19: in every definition returned, modelConfig.model is a non-empty
\* string: the declared model name, trimmed, when the Model block declares
\* one that is not empty after trimming, and the default model in every
\* other case.  (No definition is returned for a model name that is not a
\* string.)
C19_ModelNeverEmpty ==
    phase = "parsed" =>
        LET Holds(text) ==
                /\ result.ok =>
                      /\ result.val.modelConfig.model /= <<>>
                      /\ result.val.modelConfig.model = ExpectedModel(text)
                /\ ~result.ok => text = "{\"model\":5}"
        IN  Holds(TextOf(extractSections(doc), <<"model">>))

\* C19 witness: a Model block whose name is blank was parsed and the
\* definition has the default model.
C19_Witness ==
    /\ phase = "parsed"
    /\ result.ok
    /\ TextOf(extractSections(doc), <<"model">>) = "{\"model\":\"  \"}"
    /\ result.val.modelConfig.model = DEFAULT_GEMINI_MODEL

-----------------------------------------------------------------------------
(* Lines of a document (SpecExtract)                                        *)

\* The number of lines written after the name heading.
MaxLines == 4

UntitledHeading == <<"#", "#", SP>>

\* Lines an author may write: headings (one in capitals with more spaces, one
\* without a title), a third-level heading, text, a blank line.
DocumentLines ==
    { Heading(<<"Tools">>),
      <<"#", "#", SP, SP, "TOOLS", SP>>,
      Heading(<<"Persona">>),
      UntitledHeading,
      <<"#", "#", "#", SP, "Sub">>,
      <<"alpha">>,
      <<SP, "beta", SP>>,
      <<>> }

WriteLine(line) ==
    /\ phase = "edit"
    /\ written < MaxLines
    /\ doc' = doc \o <<NL>> \o line
    /\ written' = written + 1
    /\ UNCHANGED <<phase, result, loaderVars, callVars, genVars>>

NextExtract ==
    \/ \E line \in DocumentLines : WriteLine(line)
    \/ ParseDocument

SpecExtract == InitSections /\ [][NextExtract]_vars

\* A line that is a second-level heading: "## " and a title.
IsHeadingLine(line) ==
    /\ Len(line) >= 4
    /\ line[1] = "#" /\ line[2] = "#" /\ line[3] = SP
    /\ trim(SubSeq(line, 4, Len(line))) /= <<>>

HeadingOf(line) == toLowerCase(trim(SubSeq(line, 4, Len(line))))

\* The mapping the lines of a text call for: every heading line, by its
\* title lower-cased and trimmed, to the trimmed text of the lines between
\* it and the next heading line (or the end); of the lines with the same
\* heading, the last.
SectionsOfLines(lines) ==
    LET headings == {i \in 1..Len(lines) : IsHeadingLine(lines[i])}
        Stop(i) == IF \E j \in headings : j > i
                   THEN SetMin({j \in headings : j > i}) ELSE Len(lines) + 1
        Body(i) == trim(Join(SubSeq(lines, i + 1, Stop(i) - 1), <<NL>>))
        Last(h) == SetMax({i \in headings : HeadingOf(lines[i]) = h})
    IN  [h \in {HeadingOf(lines[i]) : i \in headings} |-> Body(Last(h))]

\* C20: the sections extracted from a text are its second-level headings,
\* lower-cased and trimmed, each with the trimmed text between it and the
\* next second-level heading or the end of the text, and with the body of
\* its last occurrence when a heading repeats.
C20_SectionsOfHeadings ==
    phase = "parsed" => extractSections(doc) = SectionsOfLines(SplitLines(doc))

-----------------------------------------------------------------------------
(* Sections in another order (checked under SpecExtract)                    *)

\* The places of the heading lines among the lines of a text.
HeadingLines(lines) == {i \in 1..Len(lines) : IsHeadingLine(lines[i])}

\* No two heading lines of the text have the same heading.
DistinctHeadings(lines) ==
    \A i, j \in HeadingLines(lines) :
        i /= j => HeadingOf(lines[i]) /= HeadingOf(lines[j])

\* The orders in which n sections can be arranged.
Orders(n) ==
    {order \in [1..n -> 1..n] : \A i, j \in 1..n : i /= j => order[i] /= order[j]}

RECURSIVE Concat(_)
Concat(groups) == IF groups = <<>> THEN <<>> ELSE Head(groups) \o Concat(Tail(groups))

\* The text with its sections in the given order: the lines before the
\* first heading line stay in place, and every heading line moves together
\* with the lines of its body.
Rearranged(lines, order) ==
    LET starts == HeadingLines(lines)
        Nth(k) == CHOOSE i \in starts : Cardinality({j \in starts : j <= i}) = k
        Stop(i) == IF \E j \in starts : j > i
                   THEN SetMin({j \in starts : j > i}) ELSE Len(lines) + 1
        Section(k) == SubSeq(lines, Nth(k), Stop(Nth(k)) - 1)
        before == IF starts = {} THEN lines ELSE SubSeq(lines, 1, SetMin(starts) - 1)
    IN  Join(before \o Concat([k \in 1..Cardinality(starts) |-> Section(order[k])]),
             <<NL>>)

\* Every arrangement of the text's sections parses to the given result.
SameInEveryOrder(lines, parsed) ==
    \A order \in Orders(Cardinality(HeadingLines(lines))) :
        parseAgentMarkdown(Rearranged(lines, order), DefaultSource) = parsed

\* C21: when the second-level headings of a text are pairwise distinct, the
\* text with its sections in any other order, each heading moved together
\* with its body, parses to the same result: the same definition, or the
\* same error.
C21_SectionOrderIrrelevant ==
    LET Holds(lines) == DistinctHeadings(lines) => SameInEveryOrder(lines, result)
    IN  phase = "parsed" => Holds(SplitLines(doc))

-----------------------------------------------------------------------------
(* Calls in progress together (SpecConcurrent)                              *)

PersonaText == HBob \o <<NL>> \o Heading(<<"Persona">>) \o <<NL, "calm">>

\* The directories on disk: what fs.readdir gives for each.
Folders ==
    [d \in {<<"agents">>, <<"team">>, <<"missing">>} |->
        CASE d = <<"agents">> ->
                [error |-> "none",
                 listing |-> << FileEntry(<<"x", ".agent", ".md">>, BadJsonText),
                                FileEntry(<<"y", ".agent", ".md">>, PersonaText),
                                FileEntry(<<"z", ".agent", ".md">>, NoHeaderText) >>]
          [] d = <<"team">> ->
                [error |-> "none",
                 listing |-> << FileEntry(<<"b", ".agent", ".md">>, NoHeaderText),
                                FileEntry(<<"notes", ".txt">>, ValidText),
                                FileEntry(<<"p", ".agent", ".md">>, PersonaText) >>]
          [] OTHER -> [error |-> "ENOENT", listing |-> <<>>]]

\* Texts handed to parseAgentMarkdown directly.
DirectTexts == {PersonaText, BadJsonText, NoHeaderText}

\* A caller hands a text to parseAgentMarkdown; written counts these calls.
ParseText(text) ==
    /\ written < MaxChunks
    /\ doc' = text
    /\ written' = written + 1
    /\ phase' = "parsed"
    /\ LET Return(parsed) ==
               /\ result' = parsed.result
               /\ lastIndex' = parsed.lastIndex
       IN  Return(parseAgentMarkdownWith(text, DefaultSource, lastIndex))
    /\ UNCHANGED <<loaderVars, calls, genVars>>

\* loadAgentsFromDirectory(directory) is called and runs up to
\* `await fs.readdir`.
StartCall(c, directory) ==
    /\ calls[c].pc = "idle"
    /\ calls' = [calls EXCEPT ![c] = [pc |-> "readdir", dir |-> directory,
                                      listing |-> <<>>, idx |-> 0,
                                      definitions |-> <<>>]]
    /\ UNCHANGED <<docVars, loaderVars, lastIndex, genVars>>

\* The call resumes after `await fs.readdir`: with the listing, or in the
\* outer catch, which returns [].
ListingArrives(c) ==
    /\ calls[c].pc = "readdir"
    /\ LET Resume(folder) ==
               /\ calls' = [calls EXCEPT ![c].pc = IF folder.error = "none"
                                                   THEN "loop" ELSE "done",
                                         ![c].listing = folder.listing,
                                         ![c].idx = 1]
               /\ warnings' = IF folder.error \in {"none", "ENOENT"} THEN warnings
                              ELSE Append(warnings, [path |-> calls[c].dir,
                                                     what |-> "directory"])
       IN  Resume(Folders[calls[c].dir])
    /\ UNCHANGED <<docVars, dirState, dirEntries, idx, definitions, pc, lastIndex, genVars>>

\* One iteration of the call's for loop: for a candidate, the call resumes
\* after `await fs.readFile`, parses, and pushes the definition or logs.
LoadNext(c) ==
    /\ calls[c].pc = "loop"
    /\ calls[c].idx <= Len(calls[c].listing)
    /\ LET Step(entry, loaded) ==
               /\ calls' = [calls EXCEPT
                               ![c].definitions =
                                   IF IsCandidate(entry) /\ loaded.result.ok
                                   THEN Append(@, loaded.result.val) ELSE @,
                               ![c].idx = @ + 1]
               /\ warnings' = IF IsCandidate(entry) /\ ~loaded.result.ok
                              THEN Append(warnings,
                                          [path |-> calls[c].dir \o <<"/">> \o entry.name,
                                           what |-> "file"])
                              ELSE warnings
               /\ lastIndex' = IF IsCandidate(entry) THEN loaded.lastIndex ELSE lastIndex
           Entry(entry) == Step(entry, LoadFileWith(calls[c].dir, entry, lastIndex))
       IN  Entry(calls[c].listing[calls[c].idx])
    /\ UNCHANGED <<docVars, dirState, dirEntries, idx, definitions, pc, genVars>>

\* The call's loop is over: return definitions.
ReturnCall(c) ==
    /\ calls[c].pc = "loop"
    /\ calls[c].idx > Len(calls[c].listing)
    /\ calls' = [calls EXCEPT ![c].pc = "done"]
    /\ UNCHANGED <<docVars, loaderVars, lastIndex, genVars>>

NextConcurrent ==
    \/ \E text \in DirectTexts : ParseText(text)
    \/ \E c \in CallIds, directory \in DOMAIN Folders : StartCall(c, directory)
    \/ \E c \in CallIds : ListingArrives(c)
    \/ \E c \in CallIds : LoadNext(c)
    \/ \E c \in CallIds : ReturnCall(c)

SpecConcurrent == Init /\ [][NextConcurrent]_vars

\* What loadAgentsFromDirectory(directory) returns when it runs alone in a
\* module that has just been loaded: the files are loaded one after another,
\* each in the module state the one before left.
RECURSIVE LoadedAlone(_, _, _)
LoadedAlone(directory, entries, regexLastIndex) ==
    LET Rest(loaded) ==
            (IF loaded.result.ok THEN <<loaded.result.val>> ELSE <<>>)
            \o LoadedAlone(directory, Tail(entries), loaded.lastIndex)
    IN  IF entries = <<>> THEN <<>>
        ELSE IF ~IsCandidate(Head(entries))
        THEN LoadedAlone(directory, Tail(entries), regexLastIndex)
        ELSE Rest(LoadFileWith(directory, Head(entries), regexLastIndex))

RunAlone(directory) == LoadedAlone(directory, Folders[directory].listing, 0)

\* C22: whatever loadAgentsFromDirectory calls are in progress together, on
\* the same directory or on different ones, and whatever parseAgentMarkdown
\* calls came before or in between, every loadAgentsFromDirectory call
\* returns what it returns when it runs alone on its directory, and every
\* parseAgentMarkdown call what it returns when it runs alone on its text.
C22_CallsIndependent ==
    /\ \A c \in CallIds :
          calls[c].pc = "done" => calls[c].definitions = RunAlone(calls[c].dir)
    /\ phase = "parsed" => result = parseAgentMarkdown(doc, DefaultSource)

\* C22 witness: after a direct parse, two calls on different directories
\* ran interleaved (the warnings of one lie around a warning of the other)
\* and both returned, each with the one definition of its directory.
C22_Witness ==
    /\ written >= 1
    /\ \A c \in CallIds : calls[c].pc = "done" /\ Len(calls[c].definitions) = 1
    /\ calls[1].dir /= calls[2].dir
    /\ Len(warnings) = 3
    /\ warnings[1].path = <<"agents", "/", "x", ".agent", ".md">>
    /\ warnings[2].path = <<"team", "/", "b", ".agent", ".md">>
    /\ warnings[3].path = <<"agents", "/", "z", ".agent", ".md">>

-----------------------------------------------------------------------------
(* The files of a listing, one by one (SpecLoaderFair)                      *)

\* What a step of ProcessEntry does to the loop position.
LoopAdvances ==
    /\ pc = "loop"
    /\ idx <= Len(dirEntries)
    /\ idx' = idx + 1

\* Once a call has its listing, the event loop resumes it after every
\* `await fs.readFile`, settled either way, until the function returns: an
\* iteration that can be made is made (the steps of NextLoader that advance
\* the loop position are those of ProcessEntry, which can be made whenever
\* the position is within the listing), and so is the return.
SpecLoaderFair ==
    /\ Init
    /\ [][NextLoader]_vars
    /\ WF_idx(LoopAdvances)
    /\ WF_vars(ReturnDefinitions)

\* The states of the file at place i of the listing.
IsParsed(i) ==
    \E k \in 1..Len(definitions) : SourcesOf(definitions)[k] = fullPath(dirEntries[i])
IsSkipped(i) ==
    \E k \in 1..Len(warnings) :
        warnings[k].what = "file" /\ warnings[k].path = fullPath(dirEntries[i])
IsPending(i) == ~IsParsed(i) /\ ~IsSkipped(i)

\* The candidate files at places i and after.
CandidatesFrom(i) == {j \in i..Len(dirEntries) : CandidateFile(dirEntries[j])}

\* The definitions come in the order of the listing.
InListingOrder ==
    \A k, l \in 1..Len(definitions) :
        k < l => \E i, j \in 1..Len(dirEntries) :
                    /\ i < j
                    /\ SourcesOf(definitions)[k] = fullPath(dirEntries[i])
                    /\ SourcesOf(definitions)[l] = fullPath(dirEntries[j])

\* C23: in a call that has its listing, every candidate file is pending
\* until the loop reaches it and is never both parsed and skipped with a
\* warning; every candidate file, those after a failing file included, ends
\* either parsed, its definition in the result, or skipped with a warning;
\* the call returns after the last entry; and the returned definitions are
\* in listing order.
C23_EveryFileSettles ==
    /\ [](dirState = "ok" =>
            /\ \A i \in CandidatesFrom(1) : ~(IsParsed(i) /\ IsSkipped(i))
            /\ \A i \in CandidatesFrom(idx) : pc = "loop" => IsPending(i)
            /\ InListingOrder)
    /\ (pc = "loop")
          ~> (/\ pc = "done"
              /\ idx = Len(dirEntries) + 1
              /\ \A i \in CandidatesFrom(1) : IsParsed(i) /= IsSkipped(i))

\* C23 witness: a call returned from a listing whose first file failed to
\* parse and whose two later files were parsed, in listing order.
C23_Witness ==
    /\ pc = "done" /\ dirState = "ok"
    /\ Len(dirEntries) = 3
    /\ \A i \in 1..3 : CandidateFile(dirEntries[i])
    /\ IsSkipped(1) /\ IsParsed(2) /\ IsParsed(3)
    /\ Len(definitions) = 2 /\ Len(warnings) = 1
    /\ SourcesOf(definitions) = <<fullPath(dirEntries[2]), fullPath(dirEntries[3])>>

-----------------------------------------------------------------------------
(* The lines of the Guidelines section (SpecGuidelines)                     *)

\* Lines an author may write under the Guidelines heading: bullets (one
\* with more spaces, one indented, one with two dashes, one with nothing
\* after the dash), a line of text, a blank line.
GuidelineLines ==
    { <<"-", SP, "be", SP, "kind">>,
      <<"-", SP, SP, "be", SP, "brief", SP>>,
      <<SP, "-", SP, "stay", SP, "calm">>,
      <<"-", "-", SP, "cite">>,
      <<"-">>,
      <<"plain", SP, "text">>,
      <<>> }

InitGuidelines == InitWith(HBob \o <<NL>> \o Heading(<<"Guidelines">>))

NextGuidelines ==
    \/ \E line \in GuidelineLines : WriteLine(line)
    \/ ParseDocument

SpecGuidelines == InitGuidelines /\ [][NextGuidelines]_vars

\* The guidelines the parse of the text gives to the definition's builder.
GuidelinesOf(md) == extractGuidelines(SectionGet(extractSections(md), <<"guidelines">>))

\* The non-empty trimmed lines of the section, in order.
SectionLinesOf(md) ==
    LET NonEmpty(line) == line /= <<>>
        Trimmed(lines) == [i \in 1..Len(lines) |-> trim(lines[i])]
    IN  IF <<"guidelines">> \notin DOMAIN extractSections(md) THEN <<>>
        ELSE SelectSeq(Trimmed(SplitLines(extractSections(md)[<<"guidelines">>])),
                       NonEmpty)

StartsWithMarker(line) == line[1] = "-"

\* A bullet line without its marker (the dashes it starts with) and the
\* white space around the rest.
WithoutMarker(line) ==
    LET rest == {i \in 1..Len(line) : line[i] /= "-"}
    IN  IF rest = {} THEN <<>> ELSE trim(SubSeq(line, SetMin(rest), Len(line)))

\* What the guidelines of a section with these lines are to be: the bullet
\* lines without their markers when there is a bullet line (those with
\* nothing after the marker left out, which may leave no guidelines at all),
\* else the one guideline of all lines joined, else nothing; and no
\* guideline of a section with a bullet line starts with a marker.
GuidelinesAsStated(lines, guidelines) ==
    LET NonEmpty(line) == line /= <<>>
        bullets == SelectSeq(lines, StartsWithMarker)
        texts == SelectSeq([i \in 1..Len(bullets) |-> WithoutMarker(bullets[i])],
                           NonEmpty)
        IsList(list) == ~IsUndef(guidelines) /\ guidelines.v = list
    IN  /\ (bullets /= <<>> /\ texts /= <<>>) => IsList(texts)
        /\ (bullets /= <<>> /\ texts = <<>>) => (IsUndef(guidelines) \/ IsList(<<>>))
        /\ (bullets /= <<>> /\ ~IsUndef(guidelines)) =>
              \A i \in 1..Len(guidelines.v) : guidelines.v[i][1] /= "-"
        /\ (bullets = <<>> /\ lines /= <<>>) => IsList(<<Join(lines, <<SP>>)>>)
        /\ lines = <<>> => IsUndef(guidelines)

\* C24: the guidelines of a text are, when a non-empty trimmed line of the
\* Guidelines section starts with a bullet marker, exactly the bullet lines
\* without their markers, in order, and no other line; else, when the
\* section has a non-empty line, the single guideline of all its non-empty
\* lines joined; else undefined.  A section with a bullet line never gives
\* a guideline that still has the marker.
C24_GuidelinesFromBullets ==
    LET Holds(lines, guidelines) == GuidelinesAsStated(lines, guidelines)
    IN  phase = "parsed" => Holds(SectionLinesOf(doc), GuidelinesOf(doc))

-----------------------------------------------------------------------------
(* Name headings and malformed sections in any order (SpecErrors)           *)

\* What an author may write, in any order: a name heading, one without a
\* name, and structured sections with malformed bodies, with a well-formed
\* body, and with JSON of the wrong shape.
ErrorChunks ==
    {HBob, HBlank}
    \cup { Heading(title) \o <<NL>> \o body :
              title \in {<<"Inputs">>, <<"Tools">>, <<"Run", SP, "Config">>},
              body \in {BadJsonBody, ProseBody} }
    \cup { Heading(<<"Inputs">>) \o <<NL>> \o GoodBody,
           Heading(<<"Inputs">>) \o <<NL>> \o ObjectBody }

NextErrors ==
    \/ \E chunk \in ErrorChunks : WriteChunk(chunk)
    \/ ParseDocument

SpecErrors == Init /\ [][NextErrors]_vars

\* Nothing but white space follows "Agent:" of the first name heading, up
\* to the end of the text.
NameBlank(md) ==
    LET a == SkipWs(md, SetMin(HeaderMarks(md)) + 1)
    IN  trim(SubSeq(md, a + 1, Len(md))) = <<>>

\* A malformed body of a structured section: text without a fenced JSON
\* block, or with a first block that does not parse.
IsMalformed(body) ==
    /\ body /= <<>>
    /\ (LabelledFences(body) = {} \/ FirstBlockText(body) = "{oops")

\* The structured sections of the map that are malformed, by their place in
\* StructuredTitles.
MalformedIn(sections) ==
    {i \in 1..Len(StructuredTitles) :
        /\ toLowerCase(StructuredTitles[i]) \in DOMAIN sections
        /\ IsMalformed(sections[toLowerCase(StructuredTitles[i])])}

\* The error of a text is that of its name when the name is missing or
\* empty, and else names the first malformed section in reading order.
ErrorInOrder(md, bad) ==
    IF HeaderMarks(md) = {}
    THEN ~result.ok /\ result.err.kind = "MissingHeader"
    ELSE IF NameBlank(md)
    THEN ~result.ok /\ result.err.kind \in {"MissingHeader", "EmptyName"}
    ELSE bad /= {} =>
            /\ ~result.ok
            /\ result.err.kind \in {"ExpectedJsonBlock", "InvalidJson"}
            /\ result.err.key = toLowerCase(StructuredTitles[SetMin(bad)])

\* C25: wherever the name heading and the sections sit in a text, a missing
\* or empty name is the error reported, also when structured sections are
\* malformed; with a name, the error names the first malformed structured
\* section in the order inputs, output, tools, mcp, model, run config; and
\* no definition is returned.
C25_ErrorsInParseOrder ==
    LET Holds(bad) == ErrorInOrder(doc, bad)
    IN  phase = "parsed" => Holds(MalformedIn(extractSections(doc)))

-----------------------------------------------------------------------------
(* The generate-agent command (SpecGenerate)                                *)

\* The lexemes a slug keeps: everything but white space and punctuation.
IsWord(c) == c \notin {SP, NL, "-", "!", "#", "/"}

\* Date.now(), as text.
Clock == <<"1762100000000">>

\* slugify(name): the words of the name in lower case, joined by "-", with
\* no "-" at either end; "agent-<now>" when the name has no word.
slugify(name) ==
    LET Slug(words) ==
            IF words = <<>> THEN <<"agent-">> \o Clock
            ELSE Join([i \in 1..Len(words) |-> <<words[i]>>], <<"-">>)
    IN  Slug(SelectSeq(toLowerCase(name), IsWord))

\* resolveDestinationDirectory(args), without --global.
resolveDestinationDirectory(directory) ==
    IF directory = <<>> THEN <<"agents">> ELSE directory

\* path.join(destinationDirectory, `${slug}.agent.md`)
OutputPathOf(directory, agentName) ==
    resolveDestinationDirectory(directory) \o <<"/">> \o slugify(agentName)
        \o <<".agent", ".md">>

\* formatMarkdown(markdown)
formatMarkdown(markdown) == trim(markdown) \o <<NL>>

\* The command ends by throwing.
Failed(command, error) == [command EXCEPT !.pc = "failed", !.error = error]

\* The file someone wrote at a path before or while the command runs.
OldFile == HEve \o <<NL>>

\* Another process creates a file that does not exist.
CreateFile(path) ==
    /\ path \notin DOMAIN disk.files
    /\ disk' = [disk EXCEPT !.files = (path :> OldFile) @@ disk.files]
    /\ UNCHANGED <<docVars, loaderVars, callVars, gen, modelCalls>>

\* handleGenerateAgent(args) up to `await resolveDestinationDirectory`: the
\* name and the prompt are trimmed and must not be empty.
InvokeGenerate(args) ==
    /\ gen.pc = "idle"
    /\ LET Start(agentName, userPrompt) ==
               IF agentName = <<>> THEN Failed(gen, "EmptyName")
               ELSE IF userPrompt = <<>> THEN Failed(gen, "EmptyPrompt")
               ELSE [gen EXCEPT !.pc = "check", !.name = agentName,
                                !.prompt = userPrompt,
                                !.overwrite = args.overwrite,
                                !.directory = args.directory]
       IN  gen' = Start(trim(args.name), trim(args.prompt))
    /\ UNCHANGED <<docVars, loaderVars, callVars, disk, modelCalls>>

\* The output path is computed and, unless --overwrite is given, the file
\* must not exist.
CheckOutputPath ==
    /\ gen.pc = "check"
    /\ LET Check(outputPath) ==
               IF ~gen.overwrite /\ outputPath \in DOMAIN disk.files
               THEN Failed([gen EXCEPT !.outputPath = outputPath, !.existed = TRUE],
                           "Exists")
               ELSE [gen EXCEPT !.pc = "configure", !.outputPath = outputPath,
                                !.existed = outputPath \in DOMAIN disk.files]
       IN  gen' = Check(OutputPathOf(gen.directory, gen.name))
    /\ UNCHANGED <<docVars, loaderVars, callVars, disk, modelCalls>>

\* Settings, extensions, configuration and authentication are loaded: they
\* succeed, throw, or leave the content generator without an auth type.
ConfigureClient(outcome) ==
    /\ gen.pc = "configure"
    /\ gen' = IF outcome = "ok" THEN [gen EXCEPT !.pc = "generate"]
              ELSE Failed(gen, outcome)
    /\ UNCHANGED <<docVars, loaderVars, callVars, disk, modelCalls>>

\* geminiClient.generateContent is called.
CallModel ==
    /\ gen.pc = "generate"
    /\ gen' = [gen EXCEPT !.pc = "awaiting"]
    /\ modelCalls' = modelCalls + 1
    /\ UNCHANGED <<docVars, loaderVars, callVars, disk>>

\* The response is written without being validated.
ModelReturnsUnvalidated(response) ==
    /\ gen.pc = "awaiting"
    /\ LET Text(rawMarkdown) ==
               /\ gen' = IF rawMarkdown = <<>> THEN Failed(gen, "NoContent")
                         ELSE [gen EXCEPT !.pc = "mkdir", !.rawMarkdown = rawMarkdown]
               /\ lastIndex' = lastIndex
       IN  IF response.rejected
           THEN gen' = Failed(gen, "ModelError") /\ lastIndex' = lastIndex
           ELSE Text(IF IsUndef(response.text) THEN <<>> ELSE trim(response.text.v))
    /\ UNCHANGED <<docVars, loaderVars, calls, disk, modelCalls>>

\* generateContent settles: it rejects, or the text of the response is
\* trimmed, must not be empty, and must parse as an agent definition.
ModelReturns(response) ==
    /\ gen.pc = "awaiting"
    /\ LET Validated(rawMarkdown, parsed) ==
               /\ gen' = IF ~parsed.result.ok THEN Failed(gen, "Validation")
                         ELSE [gen EXCEPT !.pc = "mkdir", !.rawMarkdown = rawMarkdown]
               /\ lastIndex' = parsed.lastIndex
           Text(rawMarkdown) ==
               IF rawMarkdown = <<>>
               THEN gen' = Failed(gen, "NoContent") /\ lastIndex' = lastIndex
               ELSE Validated(rawMarkdown,
                              parseAgentMarkdownWith(rawMarkdown,
                                                     <<"generated agent">>, lastIndex))
       IN  IF response.rejected
           THEN gen' = Failed(gen, "ModelError") /\ lastIndex' = lastIndex
           ELSE Text(IF IsUndef(response.text) THEN <<>> ELSE trim(response.text.v))
    /\ UNCHANGED <<docVars, loaderVars, calls, disk, modelCalls>>

\* await mkdir(destinationDirectory, { recursive: true })
MakeDirectory(ok) ==
    /\ gen.pc = "mkdir"
    /\ gen' = IF ok THEN [gen EXCEPT !.pc = "write"] ELSE Failed(gen, "MkdirFailed")
    /\ disk' = IF ok
               THEN [disk EXCEPT !.dirs = @ \cup {resolveDestinationDirectory(gen.directory)},
                                 !.ops = Append(@, "mkdir")]
               ELSE disk
    /\ UNCHANGED <<docVars, loaderVars, callVars, modelCalls>>

\* await writeFile(outputPath, formatMarkdown(rawMarkdown), 'utf-8')
WriteAgentFile(ok) ==
    /\ gen.pc = "write"
    /\ gen' = IF ok THEN [gen EXCEPT !.pc = "done"] ELSE Failed(gen, "WriteFailed")
    /\ disk' = IF ok
               THEN [disk EXCEPT !.files = (gen.outputPath :> formatMarkdown(gen.rawMarkdown))
                                              @@ disk.files,
                                 !.ops = Append(@, "writeFile")]
               ELSE disk
    /\ UNCHANGED <<docVars, loaderVars, callVars, modelCalls>>

\* The arguments of the command: names (one padded, one blank, one without
\* a word), prompts (one blank), with and without --overwrite and
\* --directory.
GenerateArgs ==
    [name : {<<SP, "Bob", SP>>, <<SP>>, <<"!">>},
     prompt : {<<"plan", SP, "trips">>, <<SP>>},
     overwrite : BOOLEAN,
     directory : {<<>>, <<"team">>}]

\* What generateContent can settle with: a rejection, a response without
\* text, blank text, and markdown that parses (one padded) or does not.
NoText == [rejected |-> FALSE, text |-> UNDEF]
TextResponse(text) == [rejected |-> FALSE, text |-> JStr(text)]
ModelResponses ==
    { [rejected |-> TRUE, text |-> UNDEF],
      NoText,
      TextResponse(<<SP, NL>>),
      TextResponse(PersonaText),
      TextResponse(<<NL, SP>> \o ValidText \o <<NL>>),
      TextResponse(NoHeaderText),
      TextResponse(BadJsonText) }

ConfigureOutcomes == {"ok", "ConfigError", "NotInitialized"}

NextGenerate ==
    \/ \E directory \in {<<"agents">>, <<"team">>} :
          CreateFile(OutputPathOf(directory, <<"Bob">>))
    \/ \E args \in GenerateArgs : InvokeGenerate(args)
    \/ CheckOutputPath
    \/ \E outcome \in ConfigureOutcomes : ConfigureClient(outcome)
    \/ CallModel
    \/ \E response \in ModelResponses : ModelReturns(response)
    \/ \E ok \in BOOLEAN : MakeDirectory(ok)
    \/ \E ok \in BOOLEAN : WriteAgentFile(ok)

SpecGenerate == Init /\ [][NextGenerate]_vars

\* The failures that come before the markdown is accepted.
EarlyErrors ==
    {"EmptyName", "EmptyPrompt", "Exists", "ConfigError", "NotInitialized",
     "ModelError", "NoContent", "Validation"}

\* C26: the command creates the destination directory and writes the agent
\* file, in that order, only after the model has returned markdown that is
\* not empty and that parseAgentMarkdown accepts; when it fails before that
\* (empty name or prompt, existing file, configuration, no content,
\* validation) it has written nothing.  Without --overwrite, a file found
\* at the output path by the initial check makes the command fail before
\* the model is called, and the file is left as it was.
C26_WritesOnlyAfterValidation ==
    /\ disk.ops /= <<>> =>
          /\ modelCalls = 1
          /\ gen.rawMarkdown /= <<>>
          /\ parseAgentMarkdown(gen.rawMarkdown, <<"generated agent">>).ok
          /\ disk.ops \in {<<"mkdir">>, <<"mkdir", "writeFile">>}
    /\ (gen.pc = "failed" /\ gen.error \in EarlyErrors) => disk.ops = <<>>
    /\ (gen.existed /\ ~gen.overwrite) =>
          /\ gen.pc = "failed" /\ gen.error = "Exists"
          /\ modelCalls = 0
          /\ disk.ops = <<>>
          /\ disk.files[gen.outputPath] = OldFile
    /\ gen.pc = "done" =>
          /\ disk.ops = <<"mkdir", "writeFile">>
          /\ disk.files[gen.outputPath] = formatMarkdown(gen.rawMarkdown)

\* C26 witness: with --overwrite, the command replaced an existing file by
\* the padded markdown the model returned, trimmed, after one model call.
C26_Witness ==
    /\ gen.pc = "done"
    /\ gen.overwrite /\ gen.existed
    /\ modelCalls = 1
    /\ disk.ops = <<"mkdir", "writeFile">>
    /\ disk.files[gen.outputPath] = ValidText \o <<NL>>
    /\ gen.outputPath = <<"agents", "/", "bob", ".agent", ".md">>

=============================================================================
